---- MODULE Spec2Model ----
(***************************************************************************)
(* Authentication and token lifecycle of the Task Management API:          *)
(* AuthService (register, login, refreshToken, logout), UserService        *)
(* (changePassword, deactivateAccount), the User schema and the            *)
(* repositories they call, as a state machine over the user collection,    *)
(* the requests in flight and the clock.                                   *)
(*                                                                         *)
(* One request slot is one invocation of a service method.  A method that  *)
(* awaits the store several times is one action per await, so that other   *)
(* requests interleave exactly where the event loop lets them.             *)
(***************************************************************************)
EXTENDS Integers, Sequences, FiniteSets, TLC

VARIABLES users, req, clock, ticks, tasks, proc

vars == <<users, req, clock, ticks, tasks, proc>>

(***************************************************************************)
(* Bounds of the model.                                                    *)
(***************************************************************************)
MaxReqs == 3
MaxUsers == 2
MaxTicks == 1
MaxTasks == 1
MaxConns == 1

Reqs == 1..MaxReqs

(***************************************************************************)
(* Token lifetimes in seconds: '7d' and '30d'.                             *)
(***************************************************************************)
AccessTTL == 604800
RefreshTTL == 2592000

\* Request inputs.  The two addresses differ only in letter case.  An account
\* is registered with FirstPassword (the passwords are interchangeable);
\* changePassword stores the others.
Emails == {"ann@x.io", "Ann@x.io"}
FirstPassword == "Secret@123"
Passwords == {"Secret@123", "Other@456"}
\* the name a registration gives, and the one a profile update asks for
FirstName == "Ann Lee"
OtherName == "Ann Ray"
\* bcrypt.genSalt
Salts == {"salt1"}

\* String.prototype.toLowerCase on the e-mail addresses of the model
ToLowerCase(e) == IF e = "Ann@x.io" THEN "ann@x.io" ELSE e

\* ERROR_MESSAGES / SUCCESS_MESSAGES
DUPLICATE_ENTRY == "Duplicate entry"
INVALID_CREDENTIALS == "Invalid credentials"
UNAUTHORIZED == "Unauthorized access"
FORBIDDEN == "Access forbidden"
NOT_FOUND == "Resource not found"
INVALID_TOKEN == "Invalid token"
TOKEN_EXPIRED == "Token has expired"
REGISTER_SUCCESS == "Registration successful"
LOGIN_SUCCESS == "Login successful"
LOGOUT_SUCCESS == "Logout successful"
CREATED == "Resource created successfully"
DELETED == "Resource deleted successfully"
UPDATED == "Resource updated successfully"

\* USER_ROLES
ADMIN == "admin"
USER == "user"

\* TASK_STATUS
PENDING == "pending"
IN_PROGRESS == "in_progress"
COMPLETED == "completed"

\* the two signing keys, named by the environment variable that holds them
JWT_SECRET == "JWT_SECRET"
JWT_REFRESH_SECRET == "JWT_REFRESH_SECRET"

\* lastLogin: { default: null }
NullDate == -1

(***************************************************************************)
(* Tokens.  typ is the key the token was signed with; "null" and           *)
(* "undefined" stand for a field holding null or never set, "malformed"    *)
(* for a string that is not a JWT.                                         *)
(***************************************************************************)
NullToken == [typ |-> "null", userId |-> 0, email |-> "", role |-> "", iat |-> 0, exp |-> 0]
UndefToken == [typ |-> "undefined", userId |-> 0, email |-> "", role |-> "", iat |-> 0, exp |-> 0]
MalformedToken == [typ |-> "malformed", userId |-> 0, email |-> "", role |-> "", iat |-> 0, exp |-> 0]

\* variant: the token does not carry the time of issue
generateAccessToken_noIat(id, doc, now) ==
    [typ |-> JWT_SECRET, userId |-> id, email |-> doc.email, role |-> doc.role,
     iat |-> 0, exp |-> AccessTTL]

\* jwt.sign({userId, email, role}, JWT_SECRET, {expiresIn})
generateAccessToken(id, doc, now) ==
    [typ |-> JWT_SECRET, userId |-> id, email |-> doc.email, role |-> doc.role,
     iat |-> now, exp |-> now + AccessTTL]

\* jwt.sign({userId}, JWT_REFRESH_SECRET, {expiresIn})
generateRefreshToken(id, now) ==
    [typ |-> JWT_REFRESH_SECRET, userId |-> id, email |-> "", role |-> "",
     iat |-> now, exp |-> now + RefreshTTL]

\* jwt.verify(token, secret): signature first, then expiry
JwtVerify(token, secret, now) ==
    IF token.typ # secret THEN "JsonWebTokenError"
    ELSE IF now >= token.exp THEN "TokenExpiredError"
    ELSE "ok"

(***************************************************************************)
(* Password hashing: bcrypt.hash(password, salt) and bcrypt.compare.       *)
(***************************************************************************)
Hash(password, salt) == [salt |-> salt, digest |-> <<salt, password>>]

\* variant: the comparison accepts any candidate
comparePassword_acceptsAny(candidate, hash) == hash.digest[1] = hash.salt

comparePassword(candidate, hash) == Hash(candidate, hash.salt) = hash

(***************************************************************************)
(* Errors and their rendering.                                             *)
(***************************************************************************)
ApiError(statusCode, message, details) ==
    [name |-> "ApiError", statusCode |-> statusCode, message |-> message,
     details |-> details, code |-> 0]

\* the error the driver raises when a write does not reach the store
StoreError ==
    [name |-> "MongoNetworkError", statusCode |-> 0, message |-> "connection closed",
     details |-> "", code |-> 0]

\* the error the driver raises on a unique-index violation
DuplicateKeyError ==
    [name |-> "MongoServerError", statusCode |-> 0, message |-> "E11000 duplicate key",
     details |-> "email", code |-> 11000]

NoRes == [statusCode |-> 0, message |-> "", details |-> ""]

Response(statusCode, message, details) ==
    [statusCode |-> statusCode, message |-> message, details |-> details]

\* variant: the duplicate-key branch missing
errorHandler_noDuplicateKey(err) ==
    IF err.name = "ApiError" THEN Response(err.statusCode, err.message, err.details)
    ELSE IF err.name = "ValidationError" THEN Response(422, "Validation Error", err.message)
    ELSE IF err.name = "CastError" THEN Response(400, "Invalid ID format", "")
    ELSE Response(500, "Internal Server Error", "")

errorHandler(err) ==
    IF err.name = "ApiError" THEN Response(err.statusCode, err.message, err.details)
    ELSE IF err.name = "ValidationError" THEN Response(422, "Validation Error", err.message)
    ELSE IF err.code = 11000 THEN Response(409, "Duplicate Entry", "email already exists")
    ELSE IF err.name = "CastError" THEN Response(400, "Invalid ID format", "")
    ELSE IF err.name = "JsonWebTokenError" THEN Response(401, "Invalid token", "")
    ELSE IF err.name = "TokenExpiredError" THEN Response(401, "Token expired", "")
    ELSE Response(500, "Internal Server Error", "")

(***************************************************************************)
(* The user collection: a sequence of documents, _id = index.              *)
(***************************************************************************)
\* UserRepository.findByEmail: findOne({email: email.toLowerCase()}); 0 = null
findByEmail(us, email) ==
    LET m == {i \in DOMAIN us : us[i].email = ToLowerCase(email)}
    IN IF m = {} THEN 0 ELSE CHOOSE i \in m : \A j \in m : i <= j

\* BaseRepository.findById; 0 = null
findById(us, id) == IF id \in DOMAIN us THEN id ELSE 0

\* variant: the schema without unique: true
UniqueIndexViolated_noIndex(us, email) == FALSE

\* email: { unique: true, lowercase: true }: the unique index rejects the insert
UniqueIndexViolated(us, email) ==
    \E i \in DOMAIN us : us[i].email = ToLowerCase(email)

\* the document model.create(userData) inserts: schema defaults, lower-cased
\* e-mail, password hashed by the pre('save') hook, timestamps
NewUser(email, password, salt, now) ==
    [name |-> FirstName,
     email |-> ToLowerCase(email), password |-> Hash(password, salt), role |-> "user",
     isActive |-> TRUE, lastLogin |-> NullDate, refreshToken |-> UndefToken,
     createdAt |-> now, updatedAt |-> now]

\* the document a query returns: refreshToken is select: false, password too
\* unless the query asks for it with select('+password')
Select(doc, includePassword) ==
    [k \in DOMAIN doc \ ({"refreshToken"} \cup (IF includePassword THEN {} ELSE {"password"})) |-> doc[k]]

\* the document model.create returns: the fields that were set
Created(doc) == [k \in DOMAIN doc \ {"refreshToken"} |-> doc[k]]

\* no document in hand
NoDoc == [k \in {} |-> 0]

\* variant: the object is returned as it is
sanitizeUser_asIs(user) == user

\* AuthService.sanitizeUser: toObject(), delete password, delete refreshToken
sanitizeUser(user) == [k \in DOMAIN user \ {"password", "refreshToken"} |-> user[k]]

\* BaseRepository.updateById: findByIdAndUpdate(id, data); sets the fields of
\* data, and updatedAt (timestamps: true); no document, no change
updateById(us, id, data, now) ==
    IF id \in DOMAIN us
    THEN [us EXCEPT ![id] =
            [k \in DOMAIN us[id] |->
                IF k \in DOMAIN data THEN data[k]
                ELSE IF k = "updatedAt" THEN now
                ELSE us[id][k]]]
    ELSE us

\* variant: the write of the refresh token is lost
updateRefreshToken_dropped(us, id, token, now) == us

updateRefreshToken(us, id, token, now) == updateById(us, id, [refreshToken |-> token], now)

updateLastLogin(us, id, now) == updateById(us, id, [lastLogin |-> now], now)

\* variant: deactivation flips the flag
deactivateUser_toggles(us, id, now) ==
    IF id \in DOMAIN us THEN updateById(us, id, [isActive |-> ~us[id].isActive], now) ELSE us

\* UserRepository.deactivateUser
deactivateUser(us, id, now) == updateById(us, id, [isActive |-> FALSE], now)

\* updateProfileSchema: the keys the schema knows
updateProfileSchema == {"name"}

\* registerSchema: the keys the schema knows
registerSchema == {"name", "email", "password"}

\* validate with stripUnknown: true: the keys the schema does not know are
\* removed, and req.body is replaced by what is left
validate(schema, data) == [k \in DOMAIN data \cap schema |-> data[k]]

(***************************************************************************)
(* Requests.                                                               *)
(***************************************************************************)
\* req.user before a guard attaches an identity
NoIdentity == [userId |-> 0, email |-> "", role |-> ""]

\* what a guard throws when it throws nothing
NoError == [name |-> "", statusCode |-> 0, message |-> "", details |-> "", code |-> 0]

\* scheme and token are the Authorization header, identity is req.user, nexts
\* counts the calls of next() by the guard that ran last; guard is the role
\* guard that ran, allowed its roles, owner what its resolver returned,
\* resolverCalls how often the resolver was called, resolverThrew what it
\* threw, thrown what the guard threw; doc is the document the service holds
\* in memory, body the user object it returns, data the req.body a client sent,
\* taskId the :id of a task route
IdleReq ==
    [op |-> "none", pc |-> "idle", email |-> "", password |-> "", newPassword |-> "",
     userId |-> 0, token |-> NullToken, user |-> 0,
     accessToken |-> NullToken, refreshToken |-> NullToken, res |-> NoRes,
     scheme |-> "none", identity |-> NoIdentity, nexts |-> 0,
     guard |-> "none", allowed |-> {}, owner |-> 0, resolverCalls |-> 0,
     resolverThrew |-> NoError, thrown |-> NoError, doc |-> NoDoc, body |-> NoDoc,
     data |-> NoDoc, taskId |-> 0]

\* slots are taken in order: which slot serves a request is immaterial
CanStart(r) == /\ req[r].pc = "idle"
               /\ \A q \in Reqs : q < r => req[q].pc # "idle"

\* where a request was when the process stopped
CrashedAt(pc) == CASE pc = "create" -> "crashed:create"
                   [] pc = "saveToken" -> "crashed:saveToken"
                   [] pc = "lastLogin" -> "crashed:lastLogin"
                   [] OTHER -> "crashed"

Crashed == {"crashed:create", "crashed:saveToken", "crashed:lastLogin", "crashed"}

InFlight(r) == req[r].pc \notin {"idle", "done"} \cup Crashed

\* tokens a client holds: those returned by completed register/login/refresh
Issued ==
    UNION {{req[r].accessToken, req[r].refreshToken} : r \in {q \in Reqs : req[q].pc = "done"}}
        \ {NullToken}

\* the process after startServer: connected to the database and listening;
\* no signal yet
Running ==
    [signal |-> "none", server |-> "listening", conns |-> 0, db |-> "connected",
     dbHandler |-> "idle", closeCb |-> "idle", elapsed |-> -1, exit |-> -1]

Init ==
    /\ users = <<>>
    /\ req = [r \in Reqs |-> IdleReq]
    /\ clock = 0
    /\ ticks = 0
    /\ tasks = <<>>
    /\ proc = Running

\* time passes: a second, or a token lifetime
Tick(d) ==
    /\ ticks < MaxTicks
    /\ clock' = clock + d
    /\ ticks' = ticks + 1
    /\ UNCHANGED <<users, req, tasks, proc>>

(***************************************************************************)
(* AuthService.register                                                    *)
(***************************************************************************)
\* the body of POST /auth/register as a client sends it: the fields of the
\* schema, and a role
RegisterBody(email, password) ==
    [name |-> FirstName, email |-> email, password |-> password, role |-> ADMIN]

\* userRepository.create(userData): a field of the schema that userData
\* carries is stored, role has its default otherwise
CreateUser(userData, salt, now) ==
    [NewUser(userData.email, userData.password, salt, now) EXCEPT
        !.name = userData.name,
        !.role = IF "role" \in DOMAIN userData THEN userData.role ELSE USER]

RegisterFind(r, email, password) ==
    /\ CanStart(r)
    /\ LET existingUser == findByEmail(users, email)
           started == [req[r] EXCEPT !.op = "register", !.email = email, !.password = password,
                                      !.data = validate(registerSchema, RegisterBody(email, password))]
       IN IF existingUser # 0
          THEN req' = [req EXCEPT ![r] =
                 [started EXCEPT !.pc = "done",
                    !.res = errorHandler(ApiError(409, DUPLICATE_ENTRY, "Email already registered"))]]
          ELSE req' = [req EXCEPT ![r] = [started EXCEPT !.pc = "create"]]
    /\ UNCHANGED <<users, clock, ticks, tasks, proc>>

RegisterCreate(r, salt) ==
    /\ req[r].op = "register" /\ req[r].pc = "create"
    /\ IF UniqueIndexViolated(users, req[r].email)
       THEN /\ req' = [req EXCEPT ![r].pc = "done", ![r].res = errorHandler(DuplicateKeyError)]
            /\ users' = users
       ELSE /\ Len(users) < MaxUsers
            /\ users' = Append(users, CreateUser(req[r].data, salt, clock))
            /\ req' = [req EXCEPT ![r].pc = "saveToken",
                                  ![r].user = Len(users) + 1,
                                  ![r].doc = Created(users'[Len(users) + 1]),
                                  ![r].accessToken = generateAccessToken(Len(users) + 1, users'[Len(users) + 1], clock),
                                  ![r].refreshToken = generateRefreshToken(Len(users) + 1, clock)]
    /\ UNCHANGED <<clock, ticks, tasks, proc>>

RegisterUpdateRefreshToken(r) ==
    /\ req[r].op = "register" /\ req[r].pc = "saveToken"
    /\ users' = updateRefreshToken(users, req[r].user, req[r].refreshToken, clock)
    /\ req' = [req EXCEPT ![r].pc = "lastLogin"]
    /\ UNCHANGED <<clock, ticks, tasks, proc>>

RegisterUpdateLastLogin(r) ==
    /\ req[r].op = "register" /\ req[r].pc = "lastLogin"
    /\ users' = updateLastLogin(users, req[r].user, clock)
    /\ req' = [req EXCEPT ![r].pc = "done", ![r].res = Response(201, REGISTER_SUCCESS, ""),
                          ![r].body = sanitizeUser(req[r].doc), ![r].doc = NoDoc]
    /\ UNCHANGED <<clock, ticks, tasks, proc>>

(***************************************************************************)
(* AuthService.login                                                       *)
(***************************************************************************)
\* variant: an unknown e-mail reported as not found
LoginCheck_notFound(us, id, password) ==
    IF id = 0 THEN ApiError(404, NOT_FOUND, "User not found")
    ELSE IF ~us[id].isActive THEN ApiError(403, FORBIDDEN, "Account is deactivated")
    ELSE IF ~comparePassword(password, us[id].password) THEN ApiError(401, INVALID_CREDENTIALS, "")
    ELSE ApiError(0, "", "")

\* variant: the isActive check missing
LoginCheck_noActiveCheck(us, id, password) ==
    IF id = 0 THEN ApiError(401, INVALID_CREDENTIALS, "")
    ELSE IF ~comparePassword(password, us[id].password) THEN ApiError(401, INVALID_CREDENTIALS, "")
    ELSE ApiError(0, "", "")

\* the checks of login on the document findByEmail returned (0 = null):
\* the error thrown, or statusCode 0 when all pass
LoginCheck(us, id, password) ==
    IF id = 0 THEN ApiError(401, INVALID_CREDENTIALS, "")
    ELSE IF ~us[id].isActive THEN ApiError(403, FORBIDDEN, "Account is deactivated")
    ELSE IF ~comparePassword(password, us[id].password) THEN ApiError(401, INVALID_CREDENTIALS, "")
    ELSE ApiError(0, "", "")

LoginFind(r, email, password) ==
    /\ CanStart(r)
    /\ LET user == findByEmail(users, email)
           err == LoginCheck(users, user, password)
           started == [req[r] EXCEPT !.op = "login", !.email = email, !.password = password]
       IN IF err.statusCode # 0
          THEN req' = [req EXCEPT ![r] = [started EXCEPT !.pc = "done", !.res = errorHandler(err)]]
          ELSE req' = [req EXCEPT ![r] =
                 [started EXCEPT !.pc = "saveToken", !.user = user,
                    !.doc = Select(users[user], TRUE),
                    !.accessToken = generateAccessToken(user, users[user], clock),
                    !.refreshToken = generateRefreshToken(user, clock)]]
    /\ UNCHANGED <<users, clock, ticks, tasks, proc>>

\* variant: the write is conditional, a newer stored token is kept
LoginUpdateRefreshToken_keepsNewer(r) ==
    /\ req[r].op = "login" /\ req[r].pc = "saveToken"
    /\ users' = IF users[req[r].user].refreshToken.iat > req[r].refreshToken.iat
                THEN users
                ELSE updateRefreshToken(users, req[r].user, req[r].refreshToken, clock)
    /\ req' = [req EXCEPT ![r].pc = "lastLogin"]
    /\ UNCHANGED <<clock, ticks, tasks, proc>>

LoginUpdateRefreshToken(r) ==
    /\ req[r].op = "login" /\ req[r].pc = "saveToken"
    /\ users' = updateRefreshToken(users, req[r].user, req[r].refreshToken, clock)
    /\ req' = [req EXCEPT ![r].pc = "lastLogin"]
    /\ UNCHANGED <<clock, ticks, tasks, proc>>

LoginUpdateLastLogin(r) ==
    /\ req[r].op = "login" /\ req[r].pc = "lastLogin"
    /\ users' = updateLastLogin(users, req[r].user, clock)
    /\ req' = [req EXCEPT ![r].pc = "done", ![r].res = Response(200, LOGIN_SUCCESS, ""),
                          ![r].body = sanitizeUser(req[r].doc), ![r].doc = NoDoc]
    /\ UNCHANGED <<clock, ticks, tasks, proc>>

(***************************************************************************)
(* AuthService.refreshToken                                                *)
(***************************************************************************)
\* variant: the presented token must be the stored one
RefreshToken_comparesStored(r, token) ==
    /\ CanStart(r)
    /\ LET verdict == JwtVerify(token, JWT_REFRESH_SECRET, clock)
           user == findById(users, token.userId)
           started == [req[r] EXCEPT !.op = "refresh", !.token = token]
       IN IF verdict = "JsonWebTokenError"
          THEN req' = [req EXCEPT ![r] =
                 [started EXCEPT !.pc = "done", !.res = errorHandler(ApiError(401, INVALID_TOKEN, ""))]]
          ELSE IF verdict = "TokenExpiredError"
          THEN req' = [req EXCEPT ![r] =
                 [started EXCEPT !.pc = "done", !.res = errorHandler(ApiError(401, TOKEN_EXPIRED, ""))]]
          ELSE IF user = 0 \/ ~users[user].isActive \/ users[user].refreshToken # token
          THEN req' = [req EXCEPT ![r] =
                 [started EXCEPT !.pc = "done", !.res = errorHandler(ApiError(401, INVALID_TOKEN, ""))]]
          ELSE req' = [req EXCEPT ![r] =
                 [started EXCEPT !.pc = "done", !.user = user,
                    !.accessToken = generateAccessToken(user, users[user], clock),
                    !.res = Response(200, "Token refreshed successfully", "")]]
    /\ UNCHANGED <<users, clock, ticks, tasks, proc>>

\* variant: the refresh token is verified with the access key
RefreshToken_accessKey(r, token) ==
    /\ CanStart(r)
    /\ LET verdict == JwtVerify(token, JWT_SECRET, clock)
           user == findById(users, token.userId)
           started == [req[r] EXCEPT !.op = "refresh", !.token = token]
       IN IF verdict = "JsonWebTokenError"
          THEN req' = [req EXCEPT ![r] =
                 [started EXCEPT !.pc = "done", !.res = errorHandler(ApiError(401, INVALID_TOKEN, ""))]]
          ELSE IF verdict = "TokenExpiredError"
          THEN req' = [req EXCEPT ![r] =
                 [started EXCEPT !.pc = "done", !.res = errorHandler(ApiError(401, TOKEN_EXPIRED, ""))]]
          ELSE IF user = 0 \/ ~users[user].isActive
          THEN req' = [req EXCEPT ![r] =
                 [started EXCEPT !.pc = "done", !.res = errorHandler(ApiError(401, INVALID_TOKEN, ""))]]
          ELSE req' = [req EXCEPT ![r] =
                 [started EXCEPT !.pc = "done", !.user = user,
                    !.accessToken = generateAccessToken(user, users[user], clock),
                    !.res = Response(200, "Token refreshed successfully", "")]]
    /\ UNCHANGED <<users, clock, ticks, tasks, proc>>

\* variant: a deactivated user is told so
RefreshToken_forbidsInactive(r, token) ==
    /\ CanStart(r)
    /\ LET verdict == JwtVerify(token, JWT_REFRESH_SECRET, clock)
           user == findById(users, token.userId)
           started == [req[r] EXCEPT !.op = "refresh", !.token = token]
       IN IF verdict = "JsonWebTokenError"
          THEN req' = [req EXCEPT ![r] =
                 [started EXCEPT !.pc = "done", !.res = errorHandler(ApiError(401, INVALID_TOKEN, ""))]]
          ELSE IF verdict = "TokenExpiredError"
          THEN req' = [req EXCEPT ![r] =
                 [started EXCEPT !.pc = "done", !.res = errorHandler(ApiError(401, TOKEN_EXPIRED, ""))]]
          ELSE IF user = 0
          THEN req' = [req EXCEPT ![r] =
                 [started EXCEPT !.pc = "done", !.res = errorHandler(ApiError(401, INVALID_TOKEN, ""))]]
          ELSE IF ~users[user].isActive
          THEN req' = [req EXCEPT ![r] =
                 [started EXCEPT !.pc = "done",
                    !.res = errorHandler(ApiError(403, FORBIDDEN, "Account is deactivated"))]]
          ELSE req' = [req EXCEPT ![r] =
                 [started EXCEPT !.pc = "done", !.user = user,
                    !.accessToken = generateAccessToken(user, users[user], clock),
                    !.res = Response(200, "Token refreshed successfully", "")]]
    /\ UNCHANGED <<users, clock, ticks, tasks, proc>>

\* variant: a successful refresh rotates the refresh token
RefreshToken_rotates(r, token) ==
    /\ CanStart(r)
    /\ LET verdict == JwtVerify(token, JWT_REFRESH_SECRET, clock)
           user == findById(users, token.userId)
           started == [req[r] EXCEPT !.op = "refresh", !.token = token]
       IN IF verdict = "JsonWebTokenError"
          THEN /\ req' = [req EXCEPT ![r] =
                    [started EXCEPT !.pc = "done", !.res = errorHandler(ApiError(401, INVALID_TOKEN, ""))]]
               /\ users' = users
          ELSE IF verdict = "TokenExpiredError"
          THEN /\ req' = [req EXCEPT ![r] =
                    [started EXCEPT !.pc = "done", !.res = errorHandler(ApiError(401, TOKEN_EXPIRED, ""))]]
               /\ users' = users
          ELSE IF user = 0 \/ ~users[user].isActive
          THEN /\ req' = [req EXCEPT ![r] =
                    [started EXCEPT !.pc = "done", !.res = errorHandler(ApiError(401, INVALID_TOKEN, ""))]]
               /\ users' = users
          ELSE /\ req' = [req EXCEPT ![r] =
                    [started EXCEPT !.pc = "done", !.user = user,
                       !.accessToken = generateAccessToken(user, users[user], clock),
                       !.refreshToken = generateRefreshToken(user, clock),
                       !.res = Response(200, "Token refreshed successfully", "")]]
               /\ users' = updateRefreshToken(users, user, generateRefreshToken(user, clock), clock)
    /\ UNCHANGED <<clock, ticks, tasks, proc>>

RefreshToken(r, token) ==
    /\ CanStart(r)
    /\ LET verdict == JwtVerify(token, JWT_REFRESH_SECRET, clock)
           user == findById(users, token.userId)
           started == [req[r] EXCEPT !.op = "refresh", !.token = token]
       IN IF verdict = "JsonWebTokenError"
          THEN req' = [req EXCEPT ![r] =
                 [started EXCEPT !.pc = "done", !.res = errorHandler(ApiError(401, INVALID_TOKEN, ""))]]
          ELSE IF verdict = "TokenExpiredError"
          THEN req' = [req EXCEPT ![r] =
                 [started EXCEPT !.pc = "done", !.res = errorHandler(ApiError(401, TOKEN_EXPIRED, ""))]]
          ELSE IF user = 0 \/ ~users[user].isActive
          THEN req' = [req EXCEPT ![r] =
                 [started EXCEPT !.pc = "done", !.res = errorHandler(ApiError(401, INVALID_TOKEN, ""))]]
          ELSE req' = [req EXCEPT ![r] =
                 [started EXCEPT !.pc = "done", !.user = user,
                    !.accessToken = generateAccessToken(user, users[user], clock),
                    !.res = Response(200, "Token refreshed successfully", "")]]
    /\ UNCHANGED <<users, clock, ticks, tasks, proc>>

(***************************************************************************)
(* AuthService.logout                                                      *)
(***************************************************************************)
\* variant: logout of an id that matches no user is refused
Logout_requiresUser(r, userId) ==
    /\ CanStart(r)
    /\ users' = updateRefreshToken(users, userId, NullToken, clock)
    /\ req' = [req EXCEPT ![r] =
          [req[r] EXCEPT !.op = "logout", !.userId = userId, !.pc = "done",
                         !.res = IF findById(users, userId) = 0
                                 THEN errorHandler(ApiError(404, NOT_FOUND, "User not found"))
                                 ELSE Response(200, LOGOUT_SUCCESS, "")]]
    /\ UNCHANGED <<clock, ticks, tasks, proc>>

Logout(r, userId) ==
    /\ CanStart(r)
    /\ users' = updateRefreshToken(users, userId, NullToken, clock)
    /\ req' = [req EXCEPT ![r] =
          [req[r] EXCEPT !.op = "logout", !.userId = userId, !.pc = "done",
                         !.res = Response(200, LOGOUT_SUCCESS, "")]]
    /\ UNCHANGED <<clock, ticks, tasks, proc>>

(***************************************************************************)
(* UserService.changePassword, UserService.deactivateAccount               *)
(***************************************************************************)
ChangePasswordFind(r, userId, currentPassword, newPassword) ==
    /\ CanStart(r)
    /\ LET user == findById(users, userId)
           started == [req[r] EXCEPT !.op = "changePassword", !.userId = userId,
                                      !.password = currentPassword, !.newPassword = newPassword]
       IN IF user = 0
          THEN req' = [req EXCEPT ![r] =
                 [started EXCEPT !.pc = "done", !.res = errorHandler(ApiError(404, NOT_FOUND, "User not found"))]]
          ELSE IF ~comparePassword(currentPassword, users[user].password)
          THEN req' = [req EXCEPT ![r] =
                 [started EXCEPT !.pc = "done",
                    !.res = errorHandler(ApiError(401, INVALID_CREDENTIALS, "Current password is incorrect"))]]
          ELSE req' = [req EXCEPT ![r] = [started EXCEPT !.pc = "save", !.user = user]]
    /\ UNCHANGED <<users, clock, ticks, tasks, proc>>

\* user.save(): writes the modified path, hashed by the pre('save') hook
ChangePasswordSave(r, salt) ==
    /\ req[r].op = "changePassword" /\ req[r].pc = "save"
    /\ users' = updateById(users, req[r].user, [password |-> Hash(req[r].newPassword, salt)], clock)
    /\ req' = [req EXCEPT ![r].pc = "done", ![r].res = Response(200, "Password changed successfully", "")]
    /\ UNCHANGED <<clock, ticks, tasks, proc>>

DeactivateAccount(r, userId) ==
    /\ CanStart(r)
    /\ users' = deactivateUser(users, userId, clock)
    /\ req' = [req EXCEPT ![r] =
          [req[r] EXCEPT !.op = "deactivate", !.userId = userId, !.pc = "done",
             !.res = IF findById(users, userId) = 0
                     THEN errorHandler(ApiError(404, NOT_FOUND, "User not found"))
                     ELSE Response(200, "Account deactivated successfully", "")]]
    /\ UNCHANGED <<clock, ticks, tasks, proc>>

(***************************************************************************)
(* UserService.updateProfile behind validateBody(updateProfileSchema)      *)
(***************************************************************************)
\* the bodies a client sends: the name, nothing, and fields it must not set
Bodies ==
    { [name |-> OtherName],
      NoDoc,
      [role |-> ADMIN, isActive |-> TRUE, email |-> "eve@x.io"],
      [name |-> OtherName, role |-> ADMIN, isActive |-> TRUE, email |-> "eve@x.io"] }

\* variant: the body reaches updateById as the client sent it
UpdateProfile_rawBody(r, userId, data) ==
    /\ CanStart(r)
    /\ users' = updateById(users, userId, data, clock)
    /\ req' = [req EXCEPT ![r] =
          [req[r] EXCEPT !.op = "updateProfile", !.userId = userId, !.data = data, !.pc = "done",
             !.res = IF findById(users, userId) = 0
                     THEN errorHandler(ApiError(404, NOT_FOUND, "User not found"))
                     ELSE Response(200, UPDATED, "")]]
    /\ UNCHANGED <<clock, ticks, tasks, proc>>

\* validateBody strips the body, updateProfile copies the allowed fields that
\* are defined, updateById writes them
UpdateProfile(r, userId, data) ==
    /\ CanStart(r)
    /\ LET updateData == validate(updateProfileSchema, data)
           allowedFields == {"name"}
           filteredData == [k \in allowedFields \cap DOMAIN updateData |-> updateData[k]]
       IN users' = updateById(users, userId, filteredData, clock)
    /\ req' = [req EXCEPT ![r] =
          [req[r] EXCEPT !.op = "updateProfile", !.userId = userId, !.data = data, !.pc = "done",
             !.res = IF findById(users, userId) = 0
                     THEN errorHandler(ApiError(404, NOT_FOUND, "User not found"))
                     ELSE Response(200, UPDATED, "")]]
    /\ UNCHANGED <<clock, ticks, tasks, proc>>

(***************************************************************************)
(* Specifications                                                          *)
(***************************************************************************)
\* the ids a caller may name: those of the stored users, and one of no user
UserIds == 1..(Len(users) + 1)

\* a request takes a step; register spells the address either way, login
\* with the capital, which findByEmail has to lower-case
\* a password change or a deactivation is for the first account, stored or
\* not: the id comes from req.user, and no stored account is ever removed
Step(r) ==
    \/ \E e \in Emails : RegisterFind(r, e, FirstPassword)
    \/ \E s \in Salts : RegisterCreate(r, s)
    \/ RegisterUpdateRefreshToken(r)
    \/ RegisterUpdateLastLogin(r)
    \/ \E p \in Passwords : LoginFind(r, "Ann@x.io", p)
    \/ LoginUpdateRefreshToken(r)
    \/ LoginUpdateLastLogin(r)
    \/ \E t \in Issued \cup {MalformedToken} : RefreshToken(r, t)
    \/ \E u \in UserIds : Logout(r, u)
    \/ \E u \in {1}, p \in Passwords : \E n \in Passwords \ {p} : ChangePasswordFind(r, u, p, n)
    \/ \E s \in Salts : ChangePasswordSave(r, s)
    \/ \E u \in {1} : DeactivateAccount(r, u)

\* requests interleave at every await, a second at a time
Next ==
    \/ \E r \in Reqs : Step(r)
    \/ Tick(1)

Spec == Init /\ [][Next]_vars

\* the same requests served one at a time: a request starts and takes its
\* steps only while no other request is between two of its steps; between
\* requests a second or a token lifetime may pass
Solo(r) == \A q \in Reqs \ {r} : ~InFlight(q)

SeqNext ==
    \/ \E r \in Reqs : Solo(r) /\ Step(r)
    \/ \E d \in {1, AccessTTL, RefreshTTL} : Tick(d)

SpecSeq == Init /\ [][SeqNext]_vars

(***************************************************************************)
(* The guards, each applied to one request at a time, over a user          *)
(* collection as earlier requests and the database's administrators left   *)
(* it, and the tokens issued to its users at time 0.  No route of the API  *)
(* sets a role or removes a document: an admin is an edit in the database, *)
(* and so is a user whose document is gone while a token still names it.   *)
(***************************************************************************)
SeedEmails == <<"ann@x.io", "bob@x.io", "cat@x.io", "dan@x.io">>

\* the document of user i after the register that created it at time 0, with
\* role and isActive as later edits left them
SeedUser(i, role, isActive) ==
    [NewUser(SeedEmails[i], FirstPassword, "salt1", 0) EXCEPT
        !.role = role, !.isActive = isActive,
        !.refreshToken = generateRefreshToken(i, 0), !.lastLogin = 0]

\* the tokens issued at time 0 to the users 1..MaxUsers, with the role each
\* had then, and a string that is no token
GuardTokens ==
    {MalformedToken}
        \cup {generateRefreshToken(u, 0) : u \in 1..MaxUsers}
        \cup {generateAccessToken(u, [email |-> SeedEmails[u], role |-> ro], 0) :
                    u \in 1..MaxUsers, ro \in {ADMIN, USER}}

GuardInit ==
    /\ \E n \in 0..MaxUsers : \E f \in [1..n -> {ADMIN, USER} \X BOOLEAN] :
            users = [i \in 1..n |-> SeedUser(i, f[i][1], f[i][2])]
    /\ req = [r \in Reqs |-> IdleReq]
    /\ clock = 0
    /\ ticks = 0
    /\ tasks = <<>>
    /\ proc = Running

\* the routes behind authenticate: GET /auth/me and /users/profile, and the
\* two that isAdmin guards as well
AdminRoutes == {"getAllUsers", "getUserStatistics"}
Routes == {"getProfile"} \cup AdminRoutes

\* Authorization header: absent, of another scheme, or 'Bearer <token>'
Schemes == {"none", "Basic", "Bearer"}

\* variant: jwt.verify with ignoreExpiration
AuthenticateCheck_ignoreExpiration(us, scheme, token, now) ==
    IF scheme # "Bearer" THEN ApiError(401, UNAUTHORIZED, "No token provided")
    ELSE IF JwtVerify(token, JWT_SECRET, now) = "JsonWebTokenError" THEN ApiError(401, INVALID_TOKEN, "")
    ELSE IF findById(us, token.userId) = 0 THEN ApiError(401, UNAUTHORIZED, "User not found")
    ELSE IF ~us[token.userId].isActive THEN ApiError(403, FORBIDDEN, "Account is deactivated")
    ELSE ApiError(0, "", "")

\* variant: a token whose user is gone is an invalid token, as in refreshToken
AuthenticateCheck_missingIsInvalidToken(us, scheme, token, now) ==
    IF scheme # "Bearer" THEN ApiError(401, UNAUTHORIZED, "No token provided")
    ELSE IF JwtVerify(token, JWT_SECRET, now) = "JsonWebTokenError" THEN ApiError(401, INVALID_TOKEN, "")
    ELSE IF JwtVerify(token, JWT_SECRET, now) = "TokenExpiredError" THEN ApiError(401, TOKEN_EXPIRED, "")
    ELSE IF findById(us, token.userId) = 0 \/ ~us[token.userId].isActive
    THEN ApiError(401, INVALID_TOKEN, "")
    ELSE ApiError(0, "", "")

\* variant: a user who has logged out is turned away
AuthenticateCheck_requiresSession(us, scheme, token, now) ==
    IF scheme # "Bearer" THEN ApiError(401, UNAUTHORIZED, "No token provided")
    ELSE IF JwtVerify(token, JWT_SECRET, now) = "JsonWebTokenError" THEN ApiError(401, INVALID_TOKEN, "")
    ELSE IF JwtVerify(token, JWT_SECRET, now) = "TokenExpiredError" THEN ApiError(401, TOKEN_EXPIRED, "")
    ELSE IF findById(us, token.userId) = 0 THEN ApiError(401, UNAUTHORIZED, "User not found")
    ELSE IF ~us[token.userId].isActive THEN ApiError(403, FORBIDDEN, "Account is deactivated")
    ELSE IF us[token.userId].refreshToken = NullToken THEN ApiError(401, INVALID_TOKEN, "")
    ELSE ApiError(0, "", "")

\* the error authenticate throws, or statusCode 0 when it calls next()
AuthenticateCheck(us, scheme, token, now) ==
    IF scheme # "Bearer" THEN ApiError(401, UNAUTHORIZED, "No token provided")
    ELSE IF JwtVerify(token, JWT_SECRET, now) = "JsonWebTokenError" THEN ApiError(401, INVALID_TOKEN, "")
    ELSE IF JwtVerify(token, JWT_SECRET, now) = "TokenExpiredError" THEN ApiError(401, TOKEN_EXPIRED, "")
    ELSE IF findById(us, token.userId) = 0 THEN ApiError(401, UNAUTHORIZED, "User not found")
    ELSE IF ~us[token.userId].isActive THEN ApiError(403, FORBIDDEN, "Account is deactivated")
    ELSE ApiError(0, "", "")

\* variant: the identity is taken from the claims of the token
Authenticate_trustsClaims(r, route, scheme, token) ==
    /\ CanStart(r)
    /\ LET err == AuthenticateCheck(users, scheme, token, clock)
           started == [req[r] EXCEPT !.op = route, !.scheme = scheme, !.token = token]
       IN IF err.statusCode # 0
          THEN req' = [req EXCEPT ![r] = [started EXCEPT !.pc = "done", !.res = errorHandler(err)]]
          ELSE req' = [req EXCEPT ![r] =
                 [started EXCEPT
                    !.pc = IF route \in AdminRoutes THEN "authorize" ELSE "handler",
                    !.identity = [userId |-> token.userId, email |-> token.email, role |-> token.role],
                    !.nexts = 1]]
    /\ UNCHANGED <<users, clock, ticks, tasks, proc>>

\* authenticate, mounted on a route: the next in the chain is isAdmin or the
\* handler
Authenticate(r, route, scheme, token) ==
    /\ CanStart(r)
    /\ LET err == AuthenticateCheck(users, scheme, token, clock)
           user == findById(users, token.userId)
           started == [req[r] EXCEPT !.op = route, !.scheme = scheme, !.token = token]
       IN IF err.statusCode # 0
          THEN req' = [req EXCEPT ![r] = [started EXCEPT !.pc = "done", !.res = errorHandler(err)]]
          ELSE req' = [req EXCEPT ![r] =
                 [started EXCEPT
                    !.pc = IF route \in AdminRoutes THEN "authorize" ELSE "handler",
                    !.identity = [userId |-> user, email |-> users[user].email, role |-> users[user].role],
                    !.nexts = 1]]
    /\ UNCHANGED <<users, clock, ticks, tasks, proc>>

\* variant: a token that does not verify is an error
OptionalAuth_rethrows(r, scheme, token) ==
    /\ CanStart(r)
    /\ LET user == findById(users, token.userId)
           started == [req[r] EXCEPT !.op = "optionalAuth", !.scheme = scheme, !.token = token]
       IN IF scheme # "Bearer"
          THEN req' = [req EXCEPT ![r] = [started EXCEPT !.pc = "guard", !.nexts = 1]]
          ELSE IF JwtVerify(token, JWT_SECRET, clock) # "ok"
          THEN req' = [req EXCEPT ![r] =
                 [started EXCEPT !.pc = "done", !.res = errorHandler(ApiError(401, INVALID_TOKEN, ""))]]
          ELSE req' = [req EXCEPT ![r] =
                 [started EXCEPT
                    !.pc = "guard", !.nexts = 1,
                    !.identity = IF user # 0 /\ users[user].isActive
                                 THEN [userId |-> user, email |-> users[user].email, role |-> users[user].role]
                                 ELSE NoIdentity]]
    /\ UNCHANGED <<users, clock, ticks, tasks, proc>>

\* optionalAuth: return next() without a Bearer header; else verify, look the
\* user up, attach it if stored and active, swallow any error, next()
OptionalAuth(r, scheme, token) ==
    /\ CanStart(r)
    /\ LET user == findById(users, token.userId)
           started == [req[r] EXCEPT !.op = "optionalAuth", !.scheme = scheme, !.token = token]
       IN IF scheme # "Bearer"
          THEN req' = [req EXCEPT ![r] = [started EXCEPT !.pc = "guard", !.nexts = 1]]
          ELSE req' = [req EXCEPT ![r] =
                 [started EXCEPT
                    !.pc = "guard", !.nexts = 1,
                    !.identity = IF /\ JwtVerify(token, JWT_SECRET, clock) = "ok"
                                    /\ user # 0 /\ users[user].isActive
                                 THEN [userId |-> user, email |-> users[user].email, role |-> users[user].role]
                                 ELSE NoIdentity]]
    /\ UNCHANGED <<users, clock, ticks, tasks, proc>>

\* variant: any identity is let through
AuthorizeCheck_noRoleCheck(identity, allowedRoles) ==
    IF identity = NoIdentity THEN ApiError(401, UNAUTHORIZED, "")
    ELSE NoError

\* authorize(...allowedRoles): the error it throws, or none
AuthorizeCheck(identity, allowedRoles) ==
    IF identity = NoIdentity THEN ApiError(401, UNAUTHORIZED, "")
    ELSE IF identity.role \notin allowedRoles
    THEN ApiError(403, FORBIDDEN, "You do not have permission to access this resource")
    ELSE NoError

\* authorize(...allowedRoles) as the next guard of the chain: isAdmin on the
\* admin routes, any set of roles behind optionalAuth
Authorize(r, allowedRoles) ==
    /\ \/ req[r].pc = "authorize" /\ allowedRoles = {ADMIN}
       \/ req[r].pc = "guard"
    /\ LET err == AuthorizeCheck(req[r].identity, allowedRoles)
           ran == [req[r] EXCEPT !.guard = "authorize", !.allowed = allowedRoles]
       IN IF err # NoError
          THEN req' = [req EXCEPT ![r] =
                 [ran EXCEPT !.pc = "done", !.nexts = 0, !.thrown = err, !.res = errorHandler(err)]]
          ELSE req' = [req EXCEPT ![r] = [ran EXCEPT !.pc = "handler", !.nexts = 1]]
    /\ UNCHANGED <<users, clock, ticks, tasks, proc>>

\* what getResourceUserId may throw: the resource is not found, or its id is
\* no ObjectId
ResolverErrors ==
    {ApiError(404, NOT_FOUND, "Task not found"),
     [name |-> "CastError", statusCode |-> 0, message |-> "Cast to ObjectId failed",
      details |-> "", code |-> 0]}

\* variant: the resolver is called for an admin as well
IsAdminOrOwner_adminResolves(r, resourceUserId, resolverError) ==
    /\ req[r].pc = "guard"
    /\ LET ran == [req[r] EXCEPT !.guard = "isAdminOrOwner"]
       IN IF req[r].identity = NoIdentity
          THEN req' = [req EXCEPT ![r] =
                 [ran EXCEPT !.pc = "done", !.nexts = 0, !.thrown = ApiError(401, UNAUTHORIZED, "")]]
          ELSE IF resolverError # NoError
          THEN req' = [req EXCEPT ![r] =
                 [ran EXCEPT !.pc = "done", !.nexts = 0, !.resolverCalls = 1,
                    !.resolverThrew = resolverError, !.thrown = resolverError]]
          ELSE IF req[r].identity.role # ADMIN /\ req[r].identity.userId # resourceUserId
          THEN req' = [req EXCEPT ![r] =
                 [ran EXCEPT !.pc = "done", !.nexts = 0, !.resolverCalls = 1, !.owner = resourceUserId,
                    !.thrown = ApiError(403, FORBIDDEN, "You can only access your own resources")]]
          ELSE req' = [req EXCEPT ![r] =
                 [ran EXCEPT !.pc = "handler", !.nexts = 1, !.resolverCalls = 1, !.owner = resourceUserId]]
    /\ UNCHANGED <<users, clock, ticks, tasks, proc>>

\* isAdminOrOwner(getResourceUserId): the resolver returns resourceUserId, or
\* throws resolverError; the middleware is an async function that no
\* asyncHandler wraps, so what it throws is the rejection of its promise
IsAdminOrOwner(r, resourceUserId, resolverError) ==
    /\ req[r].pc = "guard"
    /\ LET ran == [req[r] EXCEPT !.guard = "isAdminOrOwner"]
       IN IF req[r].identity = NoIdentity
          THEN req' = [req EXCEPT ![r] =
                 [ran EXCEPT !.pc = "done", !.nexts = 0, !.thrown = ApiError(401, UNAUTHORIZED, "")]]
          ELSE IF req[r].identity.role = ADMIN
          THEN req' = [req EXCEPT ![r] = [ran EXCEPT !.pc = "handler", !.nexts = 1]]
          ELSE IF resolverError # NoError
          THEN req' = [req EXCEPT ![r] =
                 [ran EXCEPT !.pc = "done", !.nexts = 0, !.resolverCalls = 1,
                    !.resolverThrew = resolverError, !.thrown = resolverError]]
          ELSE IF req[r].identity.userId # resourceUserId
          THEN req' = [req EXCEPT ![r] =
                 [ran EXCEPT !.pc = "done", !.nexts = 0, !.resolverCalls = 1, !.owner = resourceUserId,
                    !.thrown = ApiError(403, FORBIDDEN, "You can only access your own resources")]]
          ELSE req' = [req EXCEPT ![r] =
                 [ran EXCEPT !.pc = "handler", !.nexts = 1, !.resolverCalls = 1, !.owner = resourceUserId]]
    /\ UNCHANGED <<users, clock, ticks, tasks, proc>>

\* AuthService.verifyToken: the decoded claims, or 401
VerifyToken(r, token) ==
    /\ CanStart(r)
    /\ LET verdict == JwtVerify(token, JWT_SECRET, clock)
           started == [req[r] EXCEPT !.op = "verifyToken", !.token = token, !.pc = "done"]
       IN req' = [req EXCEPT ![r] =
            IF verdict = "JsonWebTokenError"
            THEN [started EXCEPT !.res = errorHandler(ApiError(401, INVALID_TOKEN, ""))]
            ELSE IF verdict = "TokenExpiredError"
            THEN [started EXCEPT !.res = errorHandler(ApiError(401, TOKEN_EXPIRED, ""))]
            ELSE [started EXCEPT !.res = Response(200, "", ""),
                                 !.identity = [userId |-> token.userId, email |-> token.email,
                                               role |-> token.role]]]
    /\ UNCHANGED <<users, clock, ticks, tasks, proc>>

\* the controller behind the guards answers
Handler(r) ==
    /\ req[r].pc \in {"handler", "guard"}
    /\ req' = [req EXCEPT ![r].pc = "done", ![r].res = Response(200, "", "")]
    /\ UNCHANGED <<users, clock, ticks, tasks, proc>>

\* no other request is being served or awaits its response
Alone(r) == \A q \in Reqs \ {r} : req[q].pc = "idle"

\* the response is sent and the request is over
Respond(r) ==
    /\ req[r].pc = "done"
    /\ req' = [req EXCEPT ![r] = IdleReq]
    /\ UNCHANGED <<users, clock, ticks, tasks, proc>>

GuardStep(r) ==
    \/ \E t \in GuardTokens : RefreshToken(r, t)
    \/ \E ro \in Routes, sc \in Schemes, t \in GuardTokens : Authenticate(r, ro, sc, t)
    \/ \E sc \in Schemes, t \in GuardTokens : OptionalAuth(r, sc, t)
    \/ \E al \in (SUBSET {ADMIN, USER}) \ {{}} : Authorize(r, al)
    \/ \E o \in 1..MaxUsers, e \in ResolverErrors \cup {NoError} : IsAdminOrOwner(r, o, e)
    \/ \E t \in GuardTokens : VerifyToken(r, t)
    \/ Handler(r)

GuardNext ==
    \/ \E r \in Reqs : Alone(r) /\ GuardStep(r)
    \/ \E r \in Reqs : Respond(r)
    \/ \E d \in {1, AccessTTL, RefreshTTL} : Tick(d)

SpecGuard == GuardInit /\ [][GuardNext]_vars

(***************************************************************************)
(* The account operations of the services and routes, one request at a     *)
(* time, over the same collections: the first account registers, logs in   *)
(* and out, refreshes, updates its profile, changes its password,          *)
(* deactivates itself, and presents its access token to authenticate.      *)
(***************************************************************************)
AccountStep(r) ==
    \/ \E e \in Emails : RegisterFind(r, e, FirstPassword)
    \/ \E s \in Salts : RegisterCreate(r, s)
    \/ RegisterUpdateRefreshToken(r)
    \/ RegisterUpdateLastLogin(r)
    \/ \E p \in Passwords : LoginFind(r, "Ann@x.io", p)
    \/ LoginUpdateRefreshToken(r)
    \/ LoginUpdateLastLogin(r)
    \/ \E t \in GuardTokens : RefreshToken(r, t)
    \/ Logout(r, 1)
    \/ \E b \in Bodies : UpdateProfile(r, 1, b)
    \/ \E p \in Passwords : \E n \in Passwords \ {p} : ChangePasswordFind(r, 1, p, n)
    \/ \E s \in Salts : ChangePasswordSave(r, s)
    \/ DeactivateAccount(r, 1)
    \/ \E t \in GuardTokens : Authenticate(r, "getProfile", "Bearer", t)
    \/ Handler(r)

AccountNext ==
    \/ \E r \in Reqs : Alone(r) /\ AccountStep(r)
    \/ \E r \in Reqs : Respond(r)
    \/ \E d \in {1, AccessTTL} : Tick(d)

SpecAccount == GuardInit /\ [][AccountNext]_vars

(***************************************************************************)
(* Register, login and refresh when the store or the process fails: the    *)
(* write of the refresh token is rejected by the store, or the process     *)
(* stops with a request between two of its steps.                          *)
(***************************************************************************)
\* variant: the failed write is swallowed and the request goes on
SaveTokenFails_masked(r) ==
    /\ req[r].op \in {"register", "login"} /\ req[r].pc = "saveToken"
    /\ req' = [req EXCEPT ![r].pc = "lastLogin"]
    /\ UNCHANGED <<users, clock, ticks, tasks, proc>>

\* updateRefreshToken rejects: register and login log the error and rethrow
\* it, the controller's res.json is not reached and errorHandler answers
SaveTokenFails(r) ==
    /\ req[r].op \in {"register", "login"} /\ req[r].pc = "saveToken"
    /\ req' = [req EXCEPT ![r].pc = "done", ![r].res = errorHandler(StoreError),
                          ![r].accessToken = NullToken, ![r].refreshToken = NullToken,
                          ![r].doc = NoDoc]
    /\ UNCHANGED <<users, clock, ticks, tasks, proc>>

\* the process stops: the request never continues and is never answered; what
\* it wrote to the store stays
Crash(r) ==
    /\ InFlight(r)
    /\ req' = [req EXCEPT ![r].pc = CrashedAt(req[r].pc)]
    /\ UNCHANGED <<users, clock, ticks, tasks, proc>>

\* the refresh tokens generated by requests that stopped before responding
Lost ==
    {req[r].refreshToken : r \in {q \in Reqs : req[q].pc \in {"crashed:saveToken", "crashed:lastLogin"}}}

FaultStep(r) ==
    \/ \E e \in Emails : RegisterFind(r, e, FirstPassword)
    \/ \E s \in Salts : RegisterCreate(r, s)
    \/ RegisterUpdateRefreshToken(r)
    \/ RegisterUpdateLastLogin(r)
    \/ \E p \in Passwords : LoginFind(r, "Ann@x.io", p)
    \/ LoginUpdateRefreshToken(r)
    \/ LoginUpdateLastLogin(r)
    \/ SaveTokenFails(r)
    \/ \E t \in Issued \cup Lost \cup {MalformedToken} : RefreshToken(r, t)

FaultNext ==
    \/ \E r \in Reqs : Solo(r) /\ FaultStep(r)
    \/ \E r \in Reqs : Crash(r)
    \/ Tick(1)

SpecFault == Init /\ [][FaultNext]_vars

(***************************************************************************)
(* The task collection and TaskService: a sequence of documents, _id =     *)
(* index.  The caller's id is req.user.userId of an authenticated user.    *)
(***************************************************************************)
\* taskSchema.pre('save'): runs on save (create), not on findOneAndUpdate
PreSave(doc, modified, now) ==
    IF "status" \in modified /\ doc.status = COMPLETED THEN [doc EXCEPT !.completedAt = now]
    ELSE IF "status" \in modified THEN [doc EXCEPT !.completedAt = NullDate]
    ELSE doc

\* the document model.create({...taskData, user: userId}) inserts: schema
\* defaults, the hook, timestamps
NewTask(userId, taskData, now) ==
    PreSave([title |-> taskData.title,
             status |-> IF "status" \in DOMAIN taskData THEN taskData.status ELSE PENDING,
             completedAt |-> NullDate, user |-> userId, isDeleted |-> FALSE,
             updatedAt |-> now],
            DOMAIN taskData, now)

\* variant: the owner is not part of the criteria
findByIdAndUser_anyUser(ts, taskId, userId) ==
    IF taskId \in DOMAIN ts /\ ~ts[taskId].isDeleted THEN taskId ELSE 0

\* TaskRepository.findByIdAndUser: findOne({_id, user, isDeleted: false}); 0 = null
findByIdAndUser(ts, taskId, userId) ==
    IF taskId \in DOMAIN ts /\ ts[taskId].user = userId /\ ~ts[taskId].isDeleted
    THEN taskId ELSE 0

\* TaskRepository.softDelete: findOneAndUpdate({_id, user, isDeleted: false},
\* {isDeleted: true}), one store operation
softDelete(ts, taskId, userId, now) ==
    IF taskId \in DOMAIN ts /\ ts[taskId].user = userId /\ ~ts[taskId].isDeleted
    THEN updateById(ts, taskId, [isDeleted |-> TRUE], now)
    ELSE ts

\* the task as a response carries it: toJSON deletes isDeleted
TaskJSON(doc) == [k \in DOMAIN doc \ {"isDeleted"} |-> doc[k]]

\* the bodies of POST /tasks and PUT /tasks/:id
CreateBodies == {[title |-> "Buy milk"], [title |-> "Buy milk", status |-> COMPLETED]}
UpdateBodies == {[status |-> COMPLETED], [status |-> IN_PROGRESS], [title |-> "Buy tea"]}

\* the ids a caller may name: those of the stored tasks, and one of no task
TaskIds == 1..(Len(tasks) + 1)

CreateTask(r, userId, taskData) ==
    /\ CanStart(r)
    /\ Len(tasks) < MaxTasks
    /\ tasks' = Append(tasks, NewTask(userId, taskData, clock))
    /\ req' = [req EXCEPT ![r] =
          [req[r] EXCEPT !.op = "createTask", !.userId = userId, !.data = taskData,
                         !.taskId = Len(tasks) + 1, !.pc = "done",
                         !.body = TaskJSON(tasks'[Len(tasks) + 1]),
                         !.res = Response(201, CREATED, "")]]
    /\ UNCHANGED <<users, clock, ticks, proc>>

GetTaskById(r, taskId, userId) ==
    /\ CanStart(r)
    /\ LET task == findByIdAndUser(tasks, taskId, userId)
           started == [req[r] EXCEPT !.op = "getTaskById", !.userId = userId, !.taskId = taskId]
       IN IF task = 0
          THEN req' = [req EXCEPT ![r] =
                 [started EXCEPT !.pc = "done", !.res = errorHandler(ApiError(404, NOT_FOUND, "Task not found"))]]
          ELSE req' = [req EXCEPT ![r] =
                 [started EXCEPT !.pc = "done", !.body = TaskJSON(tasks[task]),
                    !.res = Response(200, "Task retrieved successfully", "")]]
    /\ UNCHANGED <<users, clock, ticks, tasks, proc>>

\* updateTask, first await: the task must exist, be the caller's and not deleted
UpdateTaskFind(r, taskId, userId, updateData) ==
    /\ CanStart(r)
    /\ LET existingTask == findByIdAndUser(tasks, taskId, userId)
           started == [req[r] EXCEPT !.op = "updateTask", !.userId = userId, !.taskId = taskId,
                                      !.data = updateData]
       IN IF existingTask = 0
          THEN req' = [req EXCEPT ![r] =
                 [started EXCEPT !.pc = "done", !.res = errorHandler(ApiError(404, NOT_FOUND, "Task not found"))]]
          ELSE req' = [req EXCEPT ![r] = [started EXCEPT !.pc = "update"]]
    /\ UNCHANGED <<users, clock, ticks, tasks, proc>>

\* updateTask, second await: updateById(taskId, updateData), by id alone
UpdateTaskWrite(r) ==
    /\ req[r].op = "updateTask" /\ req[r].pc = "update"
    /\ tasks' = updateById(tasks, req[r].taskId, req[r].data, clock)
    /\ req' = [req EXCEPT ![r].pc = "done", ![r].body = TaskJSON(tasks'[req[r].taskId]),
                          ![r].res = Response(200, UPDATED, "")]
    /\ UNCHANGED <<users, clock, ticks, proc>>

DeleteTask(r, taskId, userId) ==
    /\ CanStart(r)
    /\ tasks' = softDelete(tasks, taskId, userId, clock)
    /\ req' = [req EXCEPT ![r] =
          [req[r] EXCEPT !.op = "deleteTask", !.userId = userId, !.taskId = taskId, !.pc = "done",
             !.res = IF findByIdAndUser(tasks, taskId, userId) = 0
                     THEN errorHandler(ApiError(404, NOT_FOUND, "Task not found"))
                     ELSE Response(200, DELETED, "")]]
    /\ UNCHANGED <<users, clock, ticks, proc>>

\* the callers: two stored users, both active
Callers == {1, 2}

TaskInit ==
    /\ users = [i \in Callers |-> SeedUser(i, USER, TRUE)]
    /\ req = [r \in Reqs |-> IdleReq]
    /\ clock = 0
    /\ ticks = 0
    /\ tasks = <<>>
    /\ proc = Running

TaskStep(r) ==
    \/ \E u \in Callers, b \in CreateBodies : CreateTask(r, u, b)
    \/ \E t \in TaskIds, u \in Callers : GetTaskById(r, t, u)
    \/ \E t \in TaskIds, u \in Callers, b \in UpdateBodies : UpdateTaskFind(r, t, u, b)
    \/ UpdateTaskWrite(r)
    \/ \E t \in TaskIds, u \in Callers : DeleteTask(r, t, u)

\* no response is waiting to be sent
Flushed == \A q \in Reqs : req[q].pc # "done"

\* task requests interleave at every await; a response is sent before the
\* next step of any request and frees its slot
TaskNext ==
    \/ \E r \in Reqs : Flushed /\ TaskStep(r)
    \/ \E r \in Reqs : Respond(r)
    \/ Tick(1)

SpecTask == TaskInit /\ [][TaskNext]_vars

\* the same requests served one at a time
TaskSeqNext ==
    \/ \E r \in Reqs : Alone(r) /\ TaskStep(r)
    \/ \E r \in Reqs : Respond(r)
    \/ Tick(1)

SpecTaskSeq == TaskInit /\ [][TaskSeqNext]_vars

(***************************************************************************)
(* Properties                                                              *)
(***************************************************************************)
\* the step with which request r starts operation op
Starts(r, op) == req[r].pc = "idle" /\ req'[r].op = op

\* the documents whose e-mail is the normalized form of email
Registered(us, email) == {i \in DOMAIN us : us[i].email = ToLowerCase(email)}

\* the hashes of a password
HashesOf(password) == {Hash(password, s) : s \in Salts}

Done(r, op) == req[r].op = op /\ req[r].pc = "done"

\* C1: a register whose normalized e-mail is already stored, when it looks
\* the e-mail up or when it inserts, fails with 409 and stores no document.
C1_DuplicateEmailRejected ==
    [][\A r \in Reqs :
        ( /\ \/ Starts(r, "register")
             \/ (req[r].op = "register" /\ req[r].pc = "create" /\ req'[r].pc # "create")
          /\ Registered(users, req'[r].email) # {} )
        => ( /\ req'[r].pc = "done"
             /\ req'[r].res.statusCode = 409
             /\ req'[r].user = 0
             /\ users' = users )]_vars

\* a register refused with 409 for an address that differs from the stored one
\* only in letter case
C1_Witness ==
    \E r \in Reqs :
        /\ Done(r, "register") /\ req[r].res.statusCode = 409
        /\ Len(users) = 1
        /\ users[1].email # req[r].email
        /\ users[1].email = ToLowerCase(req[r].email)

\* C2: no two stored user documents have the same normalized e-mail.
C2_UniqueNormalizedEmail ==
    \A i, j \in DOMAIN users :
        i # j => ToLowerCase(users[i].email) # ToLowerCase(users[j].email)

\* two registers of one address both passed the lookup; one inserted, the
\* other was refused by the index
C2_Witness ==
    \E r, q \in Reqs :
        /\ r # q
        /\ req[r].op = "register" /\ req[r].user # 0
        /\ Done(q, "register")
        /\ ToLowerCase(req[q].email) = ToLowerCase(req[r].email)
        /\ req[q].res = Response(409, "Duplicate Entry", "email already exists")

\* user i was registered with password P and no changePassword for i has
\* completed
RegisteredWith(i, P) ==
    /\ \E q \in Reqs : req[q].op = "register" /\ req[q].user = i /\ req[q].password = P
    /\ \A q \in Reqs : ~(Done(q, "changePassword") /\ req[q].user = i /\ req[q].res.statusCode = 200)

\* C3: a login for an active user registered with P, whose password was not
\* changed, goes on to issue tokens exactly when the supplied password is P,
\* and is refused with 401 otherwise; a login that issued tokens returns 200
\* with an access and a refresh token.
C3_LoginIffPassword ==
    [][\A r \in Reqs :
        /\ Starts(r, "login") =>
             \A i \in Registered(users, req'[r].email), P \in Passwords :
                (users[i].isActive /\ RegisteredWith(i, P)) =>
                    IF req'[r].password = P
                    THEN /\ req'[r].pc = "saveToken"
                         /\ req'[r].user = i
                         /\ req'[r].accessToken.typ = JWT_SECRET
                         /\ req'[r].refreshToken.typ = JWT_REFRESH_SECRET
                    ELSE /\ req'[r].pc = "done"
                         /\ req'[r].res.statusCode = 401
                         /\ req'[r].accessToken = NullToken
                         /\ req'[r].refreshToken = NullToken
        /\ (req[r].op = "login" /\ req[r].pc # "done" /\ req'[r].pc = "done") =>
             /\ req'[r].res.statusCode = 200
             /\ req'[r].accessToken.typ = JWT_SECRET /\ req'[r].accessToken.userId = req[r].user
             /\ req'[r].refreshToken.typ = JWT_REFRESH_SECRET /\ req'[r].refreshToken.userId = req[r].user
      ]_vars

\* after a login with the registered password succeeded, a later login with
\* another password was refused, the password unchanged and the user active
C3_Witness ==
    \E r, q \in Reqs :
        /\ r < q
        /\ Done(r, "login") /\ req[r].res.statusCode = 200
        /\ Done(q, "login") /\ req[q].res.statusCode = 401
        /\ req[q].password # req[r].password
        /\ users[req[r].user].isActive
        /\ RegisteredWith(req[r].user, req[r].password)

\* C4, as claimed: a login whose e-mail is not registered, or whose password
\* does not match the stored hash, fails with 401 Invalid credentials, for
\* every stored user document.
C4_AsClaimed ==
    [][\A r \in Reqs :
        ( /\ Starts(r, "login")
          /\ \/ Registered(users, req'[r].email) = {}
             \/ \E i \in Registered(users, req'[r].email) :
                    users[i].password \notin HashesOf(req'[r].password) )
        => ( /\ req'[r].pc = "done"
             /\ req'[r].res = Response(401, INVALID_CREDENTIALS, "") )]_vars

\* C4, amended: a login whose e-mail is not registered, or is registered to
\* an active user whose stored hash the password does not match, fails with
\* the one response 401 Invalid credentials, issues no token and writes
\* nothing; a login for a deactivated user fails with 403 whatever the
\* password.
C4_InvalidCredentialsUniform ==
    [][\A r \in Reqs : Starts(r, "login") =>
        /\ ( \/ Registered(users, req'[r].email) = {}
             \/ \E i \in Registered(users, req'[r].email) :
                    users[i].isActive /\ users[i].password \notin HashesOf(req'[r].password) )
           => ( /\ req'[r].pc = "done"
                /\ req'[r].res = Response(401, INVALID_CREDENTIALS, "")
                /\ req'[r].accessToken = NullToken /\ req'[r].refreshToken = NullToken
                /\ users' = users )
        /\ ( \E i \in Registered(users, req'[r].email) : ~users[i].isActive )
           => ( /\ req'[r].pc = "done"
                /\ req'[r].res.statusCode = 403 )
      ]_vars

\* the password of an active user was changed, and a later login with the
\* old password got 401 Invalid credentials
C4_Witness ==
    \E c, l \in Reqs :
        /\ c < l
        /\ Done(c, "changePassword") /\ req[c].res.statusCode = 200
        /\ Done(l, "login") /\ req[l].password = req[c].password
        /\ req[l].res = Response(401, INVALID_CREDENTIALS, "")
        /\ Registered(users, req[l].email) = {req[c].user}
        /\ users[req[c].user].isActive
        /\ users[req[c].user].password \in HashesOf(req[c].newPassword)

\* C5: a login with the correct password for a user whose isActive is false
\* fails with 403 Account is deactivated, issues no token and writes nothing.
C5_DeactivatedLoginForbidden ==
    [][\A r \in Reqs :
        ( /\ Starts(r, "login")
          /\ \E i \in Registered(users, req'[r].email) :
                ~users[i].isActive /\ users[i].password \in HashesOf(req'[r].password) )
        => ( /\ req'[r].pc = "done"
             /\ req'[r].res = Response(403, FORBIDDEN, "Account is deactivated")
             /\ req'[r].accessToken = NullToken /\ req'[r].refreshToken = NullToken
             /\ users' = users )]_vars

\* a user was deactivated, and a later login with the stored password got 403
C5_Witness ==
    \E d, l \in Reqs :
        /\ d < l
        /\ Done(d, "deactivate") /\ req[d].res.statusCode = 200
        /\ Done(l, "login") /\ req[l].res.statusCode = 403
        /\ Registered(users, req[l].email) = {req[d].userId}
        /\ ~users[req[d].userId].isActive
        /\ users[req[d].userId].password \in HashesOf(req[l].password)

\* C6: when a register or login served with no other request in flight
\* completes successfully, the user's stored refreshToken is the refresh token
\* the call returns and the user's lastLogin is set.
C6_StoredTokenIsReturned ==
    [][\A r \in Reqs :
        ( /\ req[r].op \in {"register", "login"}
          /\ req[r].pc # "done" /\ req'[r].pc = "done"
          /\ req'[r].res.statusCode \in {200, 201} )
        => ( /\ req'[r].refreshToken.typ = JWT_REFRESH_SECRET
             /\ users'[req'[r].user].refreshToken = req'[r].refreshToken
             /\ users'[req'[r].user].lastLogin # NullDate )]_vars

\* a register stored its refresh token, and a later login of the same user
\* replaced it by the different token it returned
C6_Witness ==
    \E r, q \in Reqs :
        /\ r < q
        /\ Done(r, "register") /\ req[r].res.statusCode = 201
        /\ Done(q, "login") /\ req[q].res.statusCode = 200
        /\ req[q].user = req[r].user
        /\ req[q].refreshToken # req[r].refreshToken
        /\ users[req[q].user].refreshToken = req[q].refreshToken
        /\ users[req[q].user].lastLogin # NullDate

\* C7: a refresh presenting a refresh token of a user whose stored
\* refreshToken is another, later issued refresh token is not accepted.
C7_AtMostOneValidRefreshToken ==
    [][\A r \in Reqs : Starts(r, "refresh") =>
        LET R1 == req'[r].token
            U == R1.userId
        IN ( /\ R1.typ = JWT_REFRESH_SECRET
             /\ U \in DOMAIN users
             /\ users[U].refreshToken.typ = JWT_REFRESH_SECRET
             /\ users[U].refreshToken.iat > R1.iat )
           => req'[r].res.statusCode # 200]_vars

\* C8: after a logout of user U has completed, a refresh presenting a refresh
\* token returned to U before that logout, unexpired, U stored and active,
\* succeeds and returns an access token of U.
C8_RefreshAfterLogout ==
    [][\A r \in Reqs : Starts(r, "refresh") =>
        LET R == req'[r].token
            U == R.userId
        IN ( /\ \E p, q \in Reqs :
                    /\ p < q /\ q < r
                    /\ req[p].op \in {"register", "login"} /\ req[p].pc = "done"
                    /\ req[p].refreshToken = R
                    /\ Done(q, "logout") /\ req[q].userId = U
             /\ R.typ = JWT_REFRESH_SECRET
             /\ clock < R.exp
             /\ U \in DOMAIN users
             /\ users[U].isActive )
           => ( /\ req'[r].pc = "done"
                /\ req'[r].res.statusCode = 200
                /\ req'[r].accessToken.typ = JWT_SECRET
                /\ req'[r].accessToken.userId = U
                /\ req'[r].accessToken.exp > clock )]_vars

\* a user registered and logged out, the stored refreshToken is null, and a
\* refresh with the token the register returned got an access token
C8_Witness ==
    \E p, q, r \in Reqs :
        /\ p < q /\ q < r
        /\ Done(p, "register") /\ req[p].res.statusCode = 201
        /\ Done(q, "logout") /\ req[q].userId = req[p].user
        /\ Done(r, "refresh") /\ req[r].token = req[p].refreshToken
        /\ req[r].res.statusCode = 200
        /\ req[r].accessToken.typ = JWT_SECRET
        /\ users[req[p].user].refreshToken = NullToken

\* C9, as claimed: logout always acknowledges and leaves the refreshToken of
\* the user null; it adds no document; a logout of a user whose refreshToken
\* is already null, or of no user, leaves the store as it was.
C9_AsClaimed ==
    [][\A r \in Reqs : Starts(r, "logout") =>
        LET U == req'[r].userId
        IN /\ req'[r].pc = "done"
           /\ req'[r].res = Response(200, LOGOUT_SUCCESS, "")
           /\ DOMAIN users' = DOMAIN users
           /\ U \in DOMAIN users => users'[U].refreshToken = NullToken
           /\ (U \in DOMAIN users /\ users[U].refreshToken = NullToken) => users' = users
           /\ U \notin DOMAIN users => users' = users]_vars

\* C9, amended: logout always acknowledges and leaves the refreshToken of the
\* user null; it adds no document and changes no other user; of the user it
\* changes nothing but refreshToken and updatedAt, which does not go back: a
\* repeated logout changes updatedAt at most; a logout of no user changes
\* nothing.
C9_LogoutClearsToken ==
    [][\A r \in Reqs : Starts(r, "logout") =>
        LET U == req'[r].userId
        IN /\ req'[r].pc = "done"
           /\ req'[r].res = Response(200, LOGOUT_SUCCESS, "")
           /\ DOMAIN users' = DOMAIN users
           /\ \A i \in DOMAIN users : i # U => users'[i] = users[i]
           /\ U \in DOMAIN users =>
                /\ users'[U].refreshToken = NullToken
                /\ users'[U].updatedAt >= users[U].updatedAt
                /\ \A k \in DOMAIN users[U] \ {"refreshToken", "updatedAt"} :
                        users'[U][k] = users[U][k]
           /\ U \notin DOMAIN users => users' = users]_vars

\* a stored user was logged out twice, the second time after the document was
\* created, and the stored refreshToken is null
C9_Witness ==
    \E q, r \in Reqs :
        /\ q < r
        /\ Done(q, "logout") /\ Done(r, "logout")
        /\ req[q].userId = req[r].userId
        /\ req[r].userId \in DOMAIN users
        /\ users[req[r].userId].refreshToken = NullToken
        /\ users[req[r].userId].updatedAt > users[req[r].userId].createdAt

\* C10: a refresh, accepted or refused, completes in its one step and leaves
\* every user document as it was; accepted, it returns an access token and no
\* refresh token; refused, it returns no token.
C10_RefreshWritesNothing ==
    [][\A r \in Reqs : Starts(r, "refresh") =>
        /\ users' = users
        /\ req'[r].pc = "done"
        /\ req'[r].refreshToken = NullToken
        /\ IF req'[r].res.statusCode = 200
           THEN req'[r].accessToken.typ = JWT_SECRET
           ELSE req'[r].accessToken = NullToken]_vars

\* a refresh with the stored refresh token was accepted, the stored copy is
\* still that token, and a later refresh with the same token, expired by
\* then, was refused
C10_Witness ==
    \E r, q \in Reqs :
        /\ r < q
        /\ Done(r, "refresh") /\ req[r].res.statusCode = 200
        /\ req[r].refreshToken = NullToken
        /\ users[req[r].user].refreshToken = req[r].token
        /\ Done(q, "refresh") /\ req[q].token = req[r].token
        /\ req[q].res = Response(401, TOKEN_EXPIRED, "")

\* C11: a refresh presenting a refresh-signed, unexpired token whose user is
\* not stored, or is stored and inactive, fails with 401 Invalid token in
\* both cases and returns no access token.
C11_RefreshForMissingOrInactiveUser ==
    [][\A r \in Reqs : Starts(r, "refresh") =>
        LET R == req'[r].token
        IN ( /\ R.typ = JWT_REFRESH_SECRET
             /\ clock < R.exp
             /\ \/ R.userId \notin DOMAIN users
                \/ ~users[R.userId].isActive )
           => ( /\ req'[r].pc = "done"
                /\ req'[r].res = Response(401, INVALID_TOKEN, "")
                /\ req'[r].accessToken = NullToken )]_vars

\* a refresh with the unexpired refresh token of a deactivated user was
\* refused with 401 Invalid token
C11_Witness ==
    \E r \in Reqs :
        /\ Done(r, "refresh")
        /\ req[r].token.typ = JWT_REFRESH_SECRET
        /\ clock < req[r].token.exp
        /\ req[r].token.userId \in DOMAIN users
        /\ ~users[req[r].token.userId].isActive
        /\ req[r].res = Response(401, INVALID_TOKEN, "")
        /\ req[r].accessToken = NullToken

\* C12, as claimed: the access token of a successful refresh with the refresh
\* token a successful login returned differs from the access token of that
\* login, and carries the same userId, email and role.
C12_AsClaimed ==
    [][\A r, p \in Reqs :
        ( /\ Starts(r, "refresh") /\ req'[r].res.statusCode = 200
          /\ Done(p, "login") /\ req[p].res.statusCode = 200
          /\ req[p].refreshToken = req'[r].token )
        => ( /\ req'[r].accessToken # req[p].accessToken
             /\ req'[r].accessToken.userId = req[p].accessToken.userId
             /\ req'[r].accessToken.email = req[p].accessToken.email
             /\ req'[r].accessToken.role = req[p].accessToken.role )]_vars

\* C12, amended: that access token carries the same userId, email and role as
\* the access token of the login, and differs from it exactly when the
\* refresh happens in a later second than the one the login issued it in.
C12_RefreshedAccessToken ==
    [][\A r, p \in Reqs :
        ( /\ Starts(r, "refresh") /\ req'[r].res.statusCode = 200
          /\ Done(p, "login") /\ req[p].res.statusCode = 200
          /\ req[p].refreshToken = req'[r].token )
        => ( /\ (req'[r].accessToken # req[p].accessToken) <=> (clock > req[p].accessToken.iat)
             /\ req'[r].accessToken.typ = JWT_SECRET
             /\ req'[r].accessToken.userId = req[p].accessToken.userId
             /\ req'[r].accessToken.email = req[p].accessToken.email
             /\ req'[r].accessToken.role = req[p].accessToken.role )]_vars

\* a login succeeded and a later refresh with its refresh token returned
\* another access token for the same user, e-mail and role
C12_Witness ==
    \E p, r \in Reqs :
        /\ p < r
        /\ Done(p, "login") /\ req[p].res.statusCode = 200
        /\ Done(r, "refresh") /\ req[r].res.statusCode = 200
        /\ req[r].token = req[p].refreshToken
        /\ req[r].accessToken # req[p].accessToken
        /\ req[r].accessToken.userId = req[p].accessToken.userId
        /\ req[r].accessToken.email = req[p].accessToken.email
        /\ req[r].accessToken.role = req[p].accessToken.role

\* the step in which authenticate runs for request r
Authenticates(r) == req[r].pc = "idle" /\ req'[r].op \in Routes

\* C13: authenticate calls next() exactly when the header is 'Bearer <token>',
\* the token is signed with the access key and unexpired, and its user is
\* stored and active; then the identity attached is userId, email and role of
\* the stored user; otherwise nothing is attached and the request ends with
\* an error; authenticate writes nothing to the store.
C13_AuthenticatePasses ==
    [][\A r \in Reqs : Authenticates(r) =>
        LET T == req'[r].token
            passes == /\ req'[r].scheme = "Bearer"
                      /\ T.typ = JWT_SECRET
                      /\ clock < T.exp
                      /\ T.userId \in DOMAIN users
                      /\ users[T.userId].isActive
        IN /\ users' = users
           /\ (req'[r].nexts = 1) <=> passes
           /\ passes =>
                /\ req'[r].pc \in {"authorize", "handler"}
                /\ req'[r].identity = [userId |-> T.userId,
                                       email |-> users[T.userId].email,
                                       role |-> users[T.userId].role]
           /\ ~passes =>
                /\ req'[r].pc = "done"
                /\ req'[r].nexts = 0
                /\ req'[r].identity = NoIdentity
                /\ req'[r].res.statusCode \in {401, 403}]_vars

\* authenticate passed a token whose role claim is not the stored role, and
\* attached the stored role
C13_Witness ==
    \E r \in Reqs :
        /\ req[r].op \in Routes /\ req[r].nexts = 1
        /\ req[r].identity.userId = req[r].token.userId
        /\ req[r].identity.role = users[req[r].token.userId].role
        /\ req[r].identity.role # req[r].token.role

\* C14: authenticate fails by the first check that fails: no 'Bearer ' header,
\* 401 Unauthorized; else a token not signed with the access key, or no
\* token at all, 401 Invalid token; else, the token unexpired, its user not
\* stored, 401 Unauthorized; else the user inactive, 403 Forbidden.
C14_AuthenticateFailureKind ==
    [][\A r \in Reqs : Authenticates(r) =>
        LET T == req'[r].token
        IN /\ req'[r].scheme # "Bearer"
                => req'[r].res = Response(401, UNAUTHORIZED, "No token provided")
           /\ (req'[r].scheme = "Bearer" /\ T.typ # JWT_SECRET)
                => req'[r].res = Response(401, INVALID_TOKEN, "")
           /\ (req'[r].scheme = "Bearer" /\ T.typ = JWT_SECRET /\ clock < T.exp
                    /\ T.userId \notin DOMAIN users)
                => req'[r].res = Response(401, UNAUTHORIZED, "User not found")
           /\ (req'[r].scheme = "Bearer" /\ T.typ = JWT_SECRET /\ clock < T.exp
                    /\ T.userId \in DOMAIN users /\ ~users[T.userId].isActive)
                => req'[r].res = Response(403, FORBIDDEN, "Account is deactivated")]_vars

\* an access token of a user whose document is gone was refused with 401
\* Unauthorized, not with Invalid token
C14_Witness ==
    \E r \in Reqs :
        /\ req[r].op \in Routes /\ req[r].pc = "done"
        /\ req[r].scheme = "Bearer"
        /\ req[r].token.typ = JWT_SECRET /\ clock < req[r].token.exp
        /\ req[r].token.userId \notin DOMAIN users
        /\ req[r].res = Response(401, UNAUTHORIZED, "User not found")

\* C15: optionalAuth ends in no error and calls next() once; it attaches an
\* identity, the stored user's, exactly when the header is 'Bearer <token>',
\* the token is signed with the access key and unexpired, and its user is
\* stored and active; it writes nothing to the store.
C15_OptionalAuthNeverFails ==
    [][\A r \in Reqs : (req[r].pc = "idle" /\ req'[r].op = "optionalAuth") =>
        LET T == req'[r].token
            valid == /\ req'[r].scheme = "Bearer"
                     /\ T.typ = JWT_SECRET
                     /\ clock < T.exp
                     /\ T.userId \in DOMAIN users
                     /\ users[T.userId].isActive
        IN /\ users' = users
           /\ req'[r].nexts = 1
           /\ req'[r].pc = "guard"
           /\ req'[r].res = NoRes
           /\ (req'[r].identity # NoIdentity) <=> valid
           /\ valid => req'[r].identity = [userId |-> T.userId,
                                           email |-> users[T.userId].email,
                                           role |-> users[T.userId].role]]_vars

\* optionalAuth let a request through with no identity though it carried an
\* access token, unexpired, of a stored user: the user is inactive
C15_Witness ==
    \E r \in Reqs :
        /\ req[r].op = "optionalAuth" /\ req[r].pc = "guard"
        /\ req[r].nexts = 1 /\ req[r].res = NoRes
        /\ req[r].scheme = "Bearer"
        /\ req[r].token.typ = JWT_SECRET /\ clock < req[r].token.exp
        /\ req[r].token.userId \in DOMAIN users
        /\ ~users[req[r].token.userId].isActive
        /\ req[r].identity = NoIdentity

\* C16: authorize lets a request on to the handler exactly when an identity
\* is attached and its role is among the allowed ones; with no identity it
\* fails with 401 Unauthorized, with another role with 403 Forbidden; and the
\* handler of an admin route runs only for a caller whose role is admin.
C16_AuthorizeByRole ==
    [][\A r \in Reqs :
        /\ (req[r].pc \in {"authorize", "guard"} /\ req'[r].guard = "authorize") =>
            /\ users' = users
            /\ (req'[r].pc = "handler" /\ req'[r].nexts = 1)
                  <=> (req[r].identity # NoIdentity /\ req[r].identity.role \in req'[r].allowed)
            /\ req[r].identity = NoIdentity
                  => (req'[r].pc = "done" /\ req'[r].res = Response(401, UNAUTHORIZED, ""))
            /\ (req[r].identity # NoIdentity /\ req[r].identity.role \notin req'[r].allowed)
                  => ( /\ req'[r].pc = "done"
                       /\ req'[r].res = Response(403, FORBIDDEN,
                                "You do not have permission to access this resource") )
        /\ (req[r].op \in AdminRoutes /\ req[r].pc = "handler" /\ req'[r].pc = "done") =>
            /\ req[r].identity.role = ADMIN
            /\ users[req[r].identity.userId].role = ADMIN]_vars

\* an admin route was refused with 403 to a caller whose token claims the
\* admin role and whose stored role is user
C16_Witness ==
    \E r \in Reqs :
        /\ req[r].op \in AdminRoutes /\ req[r].pc = "done"
        /\ req[r].guard = "authorize" /\ req[r].allowed = {ADMIN}
        /\ req[r].token.role = ADMIN
        /\ req[r].identity.role = USER
        /\ users[req[r].identity.userId].role = USER
        /\ req[r].res = Response(403, FORBIDDEN, "You do not have permission to access this resource")

\* C17: isAdminOrOwner lets an admin through without calling the resolver;
\* for another caller it calls the resolver once, lets the request through
\* exactly when the owner it returns is the caller, throws 403 Forbidden when
\* it returns another owner, and throws what the resolver threw, unchanged.
C17_AdminOrOwner ==
    [][\A r \in Reqs : (req[r].pc = "guard" /\ req'[r].guard = "isAdminOrOwner") =>
        LET id == req[r].identity
            passes == req'[r].pc = "handler" /\ req'[r].nexts = 1 /\ req'[r].thrown = NoError
        IN /\ users' = users
           /\ (id # NoIdentity /\ id.role = ADMIN) => (passes /\ req'[r].resolverCalls = 0)
           /\ (id # NoIdentity /\ id.role # ADMIN) =>
                /\ req'[r].resolverCalls = 1
                /\ passes <=> (req'[r].resolverThrew = NoError /\ req'[r].owner = id.userId)
                /\ (req'[r].resolverThrew = NoError /\ req'[r].owner # id.userId) =>
                        /\ req'[r].pc = "done"
                        /\ req'[r].thrown = ApiError(403, FORBIDDEN,
                                                "You can only access your own resources")
                /\ req'[r].resolverThrew # NoError =>
                        /\ req'[r].pc = "done"
                        /\ req'[r].thrown = req'[r].resolverThrew]_vars

\* a caller who is no admin asked for the resource of another user and got
\* 403 Forbidden
C17_Witness ==
    \E r \in Reqs :
        /\ req[r].guard = "isAdminOrOwner" /\ req[r].pc = "done"
        /\ req[r].identity # NoIdentity /\ req[r].identity.role = USER
        /\ req[r].resolverCalls = 1
        /\ req[r].owner \notin {0, req[r].identity.userId}
        /\ req[r].thrown = ApiError(403, FORBIDDEN, "You can only access your own resources")

\* C18: a token signed with the refresh key is refused with 401 Invalid token
\* by authenticate and by verifyToken, and optionalAuth attaches nothing for
\* it; a token signed with the access key is refused with 401 Invalid token
\* by refresh, which returns no token; whatever the clock and the user.
C18_SecretIsolation ==
    [][\A r \in Reqs :
        /\ (Authenticates(r) /\ req'[r].scheme = "Bearer" /\ req'[r].token.typ = JWT_REFRESH_SECRET) =>
            /\ req'[r].pc = "done" /\ req'[r].nexts = 0 /\ req'[r].identity = NoIdentity
            /\ req'[r].res = Response(401, INVALID_TOKEN, "")
        /\ (Starts(r, "verifyToken") /\ req'[r].token.typ = JWT_REFRESH_SECRET) =>
            /\ req'[r].identity = NoIdentity
            /\ req'[r].res = Response(401, INVALID_TOKEN, "")
        /\ (Starts(r, "optionalAuth") /\ req'[r].token.typ = JWT_REFRESH_SECRET) =>
            req'[r].identity = NoIdentity
        /\ (Starts(r, "refresh") /\ req'[r].token.typ = JWT_SECRET) =>
            /\ req'[r].pc = "done" /\ req'[r].accessToken = NullToken
            /\ req'[r].res = Response(401, INVALID_TOKEN, "")]_vars

\* authenticate refused the unexpired refresh token of a stored, active user
\* with 401 Invalid token
C18_Witness ==
    \E r \in Reqs :
        /\ req[r].op \in Routes /\ req[r].pc = "done"
        /\ req[r].scheme = "Bearer"
        /\ req[r].token.typ = JWT_REFRESH_SECRET /\ clock < req[r].token.exp
        /\ req[r].token.userId \in DOMAIN users
        /\ users[req[r].token.userId].isActive
        /\ req[r].res = Response(401, INVALID_TOKEN, "")

\* C19: the clock never goes back, and from the second a token expires on,
\* authenticate and verifyToken refuse an access token, and refresh a refresh
\* token, with 401 Token has expired, whatever the state of its user.
C19_ExpiredTokenRejected ==
    [][/\ clock' >= clock
       /\ \A r \in Reqs :
            /\ ( /\ Authenticates(r) /\ req'[r].scheme = "Bearer"
                 /\ req'[r].token.typ = JWT_SECRET /\ clock >= req'[r].token.exp ) =>
                    /\ req'[r].pc = "done" /\ req'[r].nexts = 0 /\ req'[r].identity = NoIdentity
                    /\ req'[r].res = Response(401, TOKEN_EXPIRED, "")
            /\ ( /\ Starts(r, "verifyToken")
                 /\ req'[r].token.typ = JWT_SECRET /\ clock >= req'[r].token.exp ) =>
                    /\ req'[r].identity = NoIdentity
                    /\ req'[r].res = Response(401, TOKEN_EXPIRED, "")
            /\ ( /\ Starts(r, "refresh")
                 /\ req'[r].token.typ = JWT_REFRESH_SECRET /\ clock >= req'[r].token.exp ) =>
                    /\ req'[r].pc = "done" /\ req'[r].accessToken = NullToken
                    /\ req'[r].res = Response(401, TOKEN_EXPIRED, "")]_vars

\* the access token of a stored, active user, presented after its lifetime,
\* was refused by authenticate with 401 Token has expired
C19_Witness ==
    \E r \in Reqs :
        /\ req[r].op \in Routes /\ req[r].pc = "done"
        /\ req[r].scheme = "Bearer"
        /\ req[r].token.typ = JWT_SECRET /\ clock >= req[r].token.exp
        /\ req[r].token.userId \in DOMAIN users
        /\ users[req[r].token.userId].isActive
        /\ req[r].res = Response(401, TOKEN_EXPIRED, "")

\* C20: the user object a register or login returns on success has neither a
\* password nor a refreshToken field, though the document the service held
\* carried the password hash; the refresh token is returned beside it.
C20_ReturnedUserSanitized ==
    [][\A r \in Reqs :
        ( /\ req[r].op \in {"register", "login"}
          /\ req[r].pc # "done" /\ req'[r].pc = "done"
          /\ req'[r].res.statusCode \in {200, 201} )
        => ( /\ "password" \in DOMAIN req[r].doc
             /\ DOMAIN req'[r].body = DOMAIN req[r].doc \ {"password", "refreshToken"}
             /\ \A k \in DOMAIN req'[r].body : req'[r].body[k] = req[r].doc[k]
             /\ req'[r].body.email = users[req[r].user].email
             /\ req'[r].refreshToken.typ = JWT_REFRESH_SECRET )]_vars

\* a register and a later login returned a user object with the e-mail and
\* without password and refreshToken, while the store holds both
C20_Witness ==
    \E p, q \in Reqs :
        /\ p < q
        /\ Done(p, "register") /\ req[p].res.statusCode = 201
        /\ Done(q, "login") /\ req[q].res.statusCode = 200
        /\ \A r \in {p, q} :
            /\ "email" \in DOMAIN req[r].body
            /\ "password" \notin DOMAIN req[r].body
            /\ "refreshToken" \notin DOMAIN req[r].body
        /\ users[req[q].user].password \in HashesOf(req[q].password)
        /\ users[req[q].user].refreshToken.typ = JWT_REFRESH_SECRET

\* C21: logout does not revoke access tokens: an unexpired access token of a
\* stored, active user passes authenticate though the user has logged out
\* (the stored refresh token is null), and the identity is the user's.
C21_AccessTokenSurvivesLogout ==
    [][\A r \in Reqs :
        ( /\ Authenticates(r)
          /\ req'[r].scheme = "Bearer"
          /\ JwtVerify(req'[r].token, JWT_SECRET, clock) = "ok"
          /\ req'[r].token.userId \in DOMAIN users
          /\ users[req'[r].token.userId].isActive
          /\ users[req'[r].token.userId].refreshToken = NullToken )
        => ( /\ req'[r].pc = "handler"
             /\ req'[r].nexts = 1
             /\ req'[r].identity.userId = req'[r].token.userId )]_vars

\* the first user logged out, then an access token issued to it before passed
\* authenticate and the handler answered 200
C21_Witness ==
    \E r \in Reqs :
        /\ Done(r, "getProfile") /\ req[r].res.statusCode = 200
        /\ req[r].token.typ = JWT_SECRET /\ req[r].token.userId = 1 /\ req[r].token.iat = 0
        /\ req[r].identity.userId = 1
        /\ users[1].refreshToken = NullToken
        /\ users[1].updatedAt > 0

\* C22: deactivation is irreversible: no step of register, login, refresh,
\* logout, profile update, password change or deactivation makes isActive
\* true for a user for whom it was false.
C22_DeactivationIrreversible ==
    [][\A u \in DOMAIN users : ~users[u].isActive => ~users'[u].isActive]_vars

\* a profile update of an inactive account that asked for isActive = true was
\* answered 200 and wrote the name, and the account is still inactive
C22_Witness ==
    \E r \in Reqs :
        /\ Done(r, "updateProfile") /\ req[r].res.statusCode = 200
        /\ {"name", "isActive"} \subseteq DOMAIN req[r].data
        /\ req[r].data.isActive
        /\ users[1].name = OtherName
        /\ ~users[1].isActive

\* C23: when the write of the new refresh token fails in register or login,
\* the request is answered with that error rendered (500) and no tokens, and
\* nothing the request wrote before is undone: the collection is as the
\* failed write found it, the created user included.  A request leaves the
\* token write either with the token stored or with this failure.
C23_FailedTokenWriteIsFatal ==
    [][\A r \in Reqs :
        ( /\ req[r].op \in {"register", "login"}
          /\ req[r].pc = "saveToken" /\ req'[r].pc \notin {"saveToken"} \cup Crashed
          /\ \/ req'[r].pc = "done"
             \/ users'[req[r].user].refreshToken # req[r].refreshToken )
        => ( /\ req'[r].pc = "done"
             /\ req'[r].res = errorHandler(StoreError)
             /\ req'[r].res.statusCode = 500
             /\ req'[r].accessToken = NullToken /\ req'[r].refreshToken = NullToken
             /\ req'[r].body = NoDoc
             /\ users' = users
             /\ req[r].user \in DOMAIN users'
             /\ req[r].op = "register" => users'[req[r].user].refreshToken = UndefToken )]_vars

\* a register failed at the token write with 500 and no tokens, its user is
\* stored without a refresh token, and a later register of the address was
\* refused as a duplicate
C23_Witness ==
    \E p, q \in Reqs :
        /\ p < q
        /\ Done(p, "register") /\ req[p].res.statusCode = 500
        /\ req[p].refreshToken = NullToken /\ req[p].accessToken = NullToken
        /\ req[p].user \in DOMAIN users
        /\ users[req[p].user].refreshToken = UndefToken
        /\ users[req[p].user].lastLogin = NullDate
        /\ Done(q, "register") /\ req[q].res.statusCode = 409

\* C24: logins of one user that run concurrently all succeed, and the stored
\* refresh token is the one of the login whose updateRefreshToken was applied
\* last: each login's write replaces whatever is stored, its later steps leave
\* the stored token alone, and it is answered 200 with the token it wrote.
C24_LastWriterWins ==
    [][\A r \in Reqs : req[r].op = "login" =>
        /\ (req[r].pc = "saveToken" /\ req'[r].pc = "lastLogin")
            => /\ users'[req[r].user].refreshToken = req[r].refreshToken
               /\ req'[r].refreshToken = req[r].refreshToken
        /\ (req[r].pc = "lastLogin" /\ req'[r].pc = "done")
            => /\ req'[r].res.statusCode = 200
               /\ req'[r].refreshToken = req[r].refreshToken
               /\ users'[req[r].user].refreshToken = users[req[r].user].refreshToken
        /\ req[r].pc \in {"saveToken", "lastLogin"}
            => req'[r].pc \in {"saveToken", "lastLogin", "done"}]_vars

\* two logins of one user raced: both were answered 200, the one that read
\* the user first (the older token) wrote last, and its token is the stored one
C24_Witness ==
    \E p, q \in Reqs :
        /\ Done(p, "login") /\ req[p].res.statusCode = 200
        /\ Done(q, "login") /\ req[q].res.statusCode = 200
        /\ req[p].user = req[q].user
        /\ req[p].refreshToken.iat < req[q].refreshToken.iat
        /\ users[req[p].user].refreshToken = req[p].refreshToken
        /\ users[req[p].user].refreshToken # req[q].refreshToken

\* C25 as claimed: a refresh token that register or login generated, that no
\* response carried and that was never stored because the process stopped
\* before updateRefreshToken, is refused by refresh.
C25_UnpersistedTokenRejected ==
    [][\A r \in Reqs :
        ( /\ Starts(r, "refresh")
          /\ req'[r].token \notin Issued
          /\ \A u \in DOMAIN users : users[u].refreshToken # req'[r].token
          /\ \E q \in Reqs : /\ req[q].pc = "crashed:saveToken"
                             /\ req[q].refreshToken = req'[r].token )
        => req'[r].res.statusCode = 401]_vars

(***************************************************************************)
(* Shutdown of the server process.  proc.exit is -1 while it runs;         *)
(* proc.elapsed counts the seconds since the force-shutdown timer was set  *)
(* (-1: no timer).                                                         *)
(***************************************************************************)
Signals == {"SIGTERM", "SIGINT"}

\* setTimeout(..., 10000), in seconds
ShutdownTimeout == 10

\* gracefulShutdown(signal): server.close(callback) stops accepting and waits
\* for the open connections; the force-shutdown timer is set
gracefulShutdown(p, signal) ==
    [p EXCEPT !.signal = signal,
              !.server = IF p.server = "listening" THEN "closing" ELSE p.server,
              !.elapsed = IF p.elapsed = -1 THEN 0 ELSE p.elapsed]

\* Database.disconnect up to its await: mongoose.connection.close() is
\* started if there is a connection
disconnect(p) == [p EXCEPT !.db = IF p.db = "connected" THEN "closing" ELSE p.db]

\* the SIGINT listener that Database.setupEventHandlers registered during
\* connect(), up to its await
databaseOnSigint(p) == [disconnect(p) EXCEPT !.dbHandler = "awaiting"]

\* a signal is delivered: its listeners run in the order they were
\* registered, Database's (SIGINT only) before the server's
Signal(s) ==
    /\ proc.exit = -1
    /\ proc' = gracefulShutdown(IF s = "SIGINT" THEN databaseOnSigint(proc) ELSE proc, s)
    /\ UNCHANGED <<users, req, clock, ticks, tasks>>

\* a client connects to the listening server
ConnOpen ==
    /\ proc.exit = -1 /\ proc.server = "listening" /\ proc.conns < MaxConns
    /\ proc' = [proc EXCEPT !.conns = @ + 1]
    /\ UNCHANGED <<users, req, clock, ticks, tasks>>

\* an open connection ends
ConnEnd ==
    /\ proc.exit = -1 /\ proc.conns > 0
    /\ proc' = [proc EXCEPT !.conns = @ - 1]
    /\ UNCHANGED <<users, req, clock, ticks, tasks>>

\* the server's 'close' event: no connection is left, the callback of
\* server.close runs up to await database.disconnect()
ServerClosed ==
    /\ proc.exit = -1 /\ proc.server = "closing" /\ proc.conns = 0
    /\ proc' = [disconnect(proc) EXCEPT !.server = "closed", !.closeCb = "awaiting"]
    /\ UNCHANGED <<users, req, clock, ticks, tasks>>

\* mongoose.connection.close() completes
DbClosed ==
    /\ proc.exit = -1 /\ proc.db = "closing"
    /\ proc' = [proc EXCEPT !.db = "closed"]
    /\ UNCHANGED <<users, req, clock, ticks, tasks>>

\* Database's SIGINT listener resumes after disconnect(): process.exit(0)
DatabaseSigintExit ==
    /\ proc.exit = -1 /\ proc.dbHandler = "awaiting" /\ proc.db = "closed"
    /\ proc' = [proc EXCEPT !.exit = 0]
    /\ UNCHANGED <<users, req, clock, ticks, tasks>>

\* the callback of server.close resumes after disconnect(): process.exit(0)
CloseCallbackExit ==
    /\ proc.exit = -1 /\ proc.closeCb = "awaiting" /\ proc.db = "closed"
    /\ proc' = [proc EXCEPT !.exit = 0]
    /\ UNCHANGED <<users, req, clock, ticks, tasks>>

\* a second passes on the force-shutdown timer
TimerTick ==
    /\ proc.exit = -1 /\ proc.elapsed >= 0 /\ proc.elapsed < ShutdownTimeout
    /\ proc' = [proc EXCEPT !.elapsed = @ + 1]
    /\ UNCHANGED <<users, req, clock, ticks, tasks>>

\* the force-shutdown timer fires: process.exit(1)
ForcedExit ==
    /\ proc.exit = -1 /\ proc.elapsed = ShutdownTimeout
    /\ proc' = [proc EXCEPT !.exit = 1]
    /\ UNCHANGED <<users, req, clock, ticks, tasks>>

ProcNext ==
    \/ \E s \in Signals : Signal(s)
    \/ ConnOpen
    \/ ConnEnd
    \/ ServerClosed
    \/ DbClosed
    \/ DatabaseSigintExit
    \/ CloseCallbackExit
    \/ TimerTick
    \/ ForcedExit

SpecProc == Init /\ [][ProcNext]_vars

\* the timers of the event loop run: time passes and a due timer fires
SpecProcLive == SpecProc /\ WF_vars(TimerTick) /\ WF_vars(ForcedExit)

\* the request r is answered in this step as operation op
Answers(r, op) == req[r].pc # "done" /\ req'[r].pc = "done" /\ req'[r].op = op

\* the stored task taskId is userId's and is not soft-deleted
Owns(ts, taskId, userId) ==
    taskId \in DOMAIN ts /\ ts[taskId].user = userId /\ ~ts[taskId].isDeleted

\* C26: with requests served one at a time, getTaskById, updateTask and
\* deleteTask by user U on task T answer 200 only if T is U's and not
\* soft-deleted; otherwise they answer 404 "Task not found" and the store is
\* left as it was.  A read never changes the store and returns the stored
\* task; a soft-deleted task stays in the store, deleted and unchanged.
C26_TaskOwnership ==
    [][/\ \A r \in Reqs : \A op \in {"getTaskById", "updateTask", "deleteTask"} :
            Answers(r, op) =>
               LET t == req'[r].taskId
                   u == req'[r].userId
               IN /\ req'[r].res.statusCode \in {200, 404}
                  /\ req'[r].res.statusCode = 200 => Owns(tasks, t, u)
                  /\ ~Owns(tasks, t, u) =>
                        /\ req'[r].res = Response(404, NOT_FOUND, "Task not found")
                        /\ tasks' = tasks
                  /\ (op = "getTaskById" /\ Owns(tasks, t, u)) =>
                        /\ tasks' = tasks
                        /\ req'[r].body = TaskJSON(tasks[t])
                  /\ (op = "deleteTask" /\ Owns(tasks, t, u)) =>
                        /\ tasks'[t].isDeleted
                        /\ \A k \in DOMAIN tasks : k # t => tasks'[k] = tasks[k]
       /\ \A t \in DOMAIN tasks :
            tasks[t].isDeleted => t \in DOMAIN tasks' /\ tasks'[t] = tasks[t]]_vars

\* a soft-deleted task is in the store and its owner's second deleteTask was
\* answered 404
C26_Witness ==
    \E r \in Reqs :
        /\ req[r].pc = "done" /\ req[r].op = "deleteTask"
        /\ req[r].res.statusCode = 404
        /\ req[r].taskId \in DOMAIN tasks
        /\ tasks[req[r].taskId].isDeleted
        /\ tasks[req[r].taskId].user = req[r].userId

\* C27 as claimed: whatever the interleaving of updateTask and deleteTask,
\* the write of updateTask never lands on a task that is soft-deleted.
C27_UpdateSkipsDeleted ==
    [][\A r \in Reqs :
        (req[r].op = "updateTask" /\ req[r].pc = "update" /\ req'[r].pc = "done")
        => \/ ~tasks[req[r].taskId].isDeleted
           \/ tasks' = tasks]_vars

\* C28 as claimed: a stored task has a completion date exactly when its
\* status is completed.
C28_CompletedAtTracksStatus ==
    \A t \in DOMAIN tasks :
        (tasks[t].completedAt # NullDate) <=> (tasks[t].status = COMPLETED)

\* C29 as claimed, its ordering part: once a shutdown signal was received the
\* database connection is not closed (nor being closed) before the HTTP
\* server is closed, and the process exits with code 0 only when both are
\* closed.
C29_ServerClosesBeforeDb ==
    proc.signal \in Signals =>
        /\ proc.db # "connected" => proc.server = "closed"
        /\ proc.exit = 0 => proc.server = "closed" /\ proc.db = "closed"

\* C30: no step of the exposed account operations (register, login, refresh,
\* logout, profile update, password change, deactivation, an authenticated
\* read) changes the role or the e-mail of a stored user or makes an inactive
\* user active; no user is removed, and a user that register adds has role
\* 'user', whatever the request body carried.
C30_NoPrivilegeEscalation ==
    [][/\ Len(users') >= Len(users)
       /\ \A u \in DOMAIN users :
            /\ users'[u].role = users[u].role
            /\ users'[u].email = users[u].email
            /\ users'[u].isActive => users[u].isActive
       /\ \A u \in DOMAIN users' \ DOMAIN users :
            /\ users'[u].role = USER
            /\ \E r \in Reqs : req[r].op = "register" /\ req'[r].user = u]_vars

\* a user that register created in this run (after time 0) from a body that
\* asked for role admin is stored with role user; a profile update of that
\* user whose body asked for role admin was answered 200 with the name
\* written and the role still user
C30_Witness ==
    \E r \in Reqs :
        /\ req[r].pc = "done" /\ req[r].op = "updateProfile"
        /\ req[r].res.statusCode = 200
        /\ {"name", "role"} \subseteq DOMAIN req[r].data /\ req[r].data.role = ADMIN
        /\ req[r].userId \in DOMAIN users
        /\ users[req[r].userId].createdAt > 0
        /\ RegisterBody(users[req[r].userId].email, FirstPassword).role = ADMIN
        /\ users[req[r].userId].name = req[r].data.name
        /\ users[req[r].userId].role = USER

====
